---- MODULE Spec2Model ----
(***************************************************************************)
(* The interaction controller of svelte-rc-knob (createKnobState in        *)
(* src/lib/actions/events.ts) together with the resolver, the snapping and *)
(* the value/percentage conversions of src/lib/utils.ts it is built on.    *)
(*                                                                         *)
(* Numbers.  Every JavaScript number of the program (angles in degrees,    *)
(* percentages, values, min, max, steps) is an exact rational kept in      *)
(* fixed point: the integer n stands for n / PScale.  Sums and comparisons *)
(* are the integer ones; products and quotients go through Mul and Div,    *)
(* which fail loudly when a result is not a multiple of 1 / PScale, so the *)
(* model never rounds.  The inputs are chosen on a grid on which every     *)
(* result is exact.                                                        *)
(***************************************************************************)
EXTENDS Integers, Sequences, FiniteSets, TLC

PScale == 2 * 360

\* The fixed-point image of the integer literal n.
Fx(n) == n * PScale

\* null / undefined of a `number | null` field.
NULL == 0 - Fx(1000)

ExactDiv(a, b) == CHOOSE q \in {a \div b} : q * b = a

Mul(a, b) == ExactDiv(a * b, PScale)

Div(a, b) == ExactDiv(a * PScale, b)

\* The results of a division by zero: x / 0 is NaN for x = 0, else +-Infinity.
NaN == 0 - Fx(2000)

Infinity == Fx(2000)

\* The / operator on any divisor.
JsDiv(a, b) ==
  IF b > 0 THEN Div(a, b)
  ELSE IF b < 0 THEN Div(0 - a, 0 - b)
  ELSE IF a = 0 THEN NaN
  ELSE IF a > 0 THEN Infinity ELSE 0 - Infinity

\* The % operator of JavaScript: the remainder takes the sign of the dividend.
JsMod(a, b) == IF a >= 0 THEN a % b ELSE 0 - ((0 - a) % b)

Abs(a) == IF a < 0 THEN 0 - a ELSE a

Sign(a) == IF a > 0 THEN Fx(1) ELSE IF a < 0 THEN 0 - Fx(1) ELSE 0

MathMax(a, b) == IF a >= b THEN a ELSE b

MathMin(a, b) == IF a <= b THEN a ELSE b

(***************************************************************************)
(* src/lib/utils.ts                                                        *)
(***************************************************************************)
\* clamp without its upper bound.
clamp_noUpperBound(min, max, value) == MathMax(min, value)

clamp(min, max, value) == MathMax(min, MathMin(max, value))

\* calculatePercentageFromMouseAngle measuring the pointer from the middle of
\* the range without wrapping the difference around the circle.
calculatePercentageFromMouseAngle_unwrapped(mouseAngle, angleOffset, angleRange) ==
  LET rangle == mouseAngle - (angleOffset + Mul(angleRange, Fx(1) \div 2))
      percentage == (Fx(1) \div 2) + Div(rangle, angleRange)
  IN  clamp(0, Fx(1), percentage)

calculatePercentageFromMouseAngle(mouseAngle, angleOffset, angleRange) ==
  LET rangle == JsMod(mouseAngle - (angleOffset + Mul(angleRange, Fx(1) \div 2)) + Fx(900),
                      Fx(360)) - Fx(180)
      percentage == (Fx(1) \div 2) + Div(rangle, angleRange)
  IN  clamp(0, Fx(1), percentage)

\* calculatePositionFromMouseAngle taking the difference of the two angles as
\* the delta, without bringing it back within half a turn.
calculatePositionFromMouseAngle_rawDelta(mouseAngle, multiRotation, angleOffset, angleRange, percentage, previousPercentage, previousMouseAngle) ==
  IF previousMouseAngle # NULL
  THEN LET deltaAngle == JsMod(mouseAngle - previousMouseAngle, Fx(360))
           validDeltaAngle == deltaAngle
           newPercentage == previousPercentage + Div(validDeltaAngle, angleRange)
       IN  IF validDeltaAngle >= Fx(120) \/ validDeltaAngle <= 0 - Fx(120)
           THEN [updated |-> FALSE, mouseAngle |-> previousMouseAngle,
                 percentage |-> previousPercentage]
           ELSE IF ~multiRotation /\ (newPercentage < 0 \/ newPercentage > Fx(1))
           THEN [updated |-> TRUE,
                 mouseAngle |-> IF newPercentage < 0 THEN angleOffset
                                ELSE JsMod(angleOffset + angleRange + Fx(720), Fx(360)),
                 percentage |-> IF newPercentage < 0 THEN 0 ELSE Fx(1)]
           ELSE [updated |-> TRUE, mouseAngle |-> mouseAngle, percentage |-> newPercentage]
  ELSE IF multiRotation
       THEN LET rawPercentage ==
                  calculatePercentageFromMouseAngle(mouseAngle, angleOffset, angleRange)
                deltaPercent ==
                  JsMod(rawPercentage + Fx(1) - JsMod(percentage, Fx(1)), Fx(1))
                validDeltaPercent ==
                  IF deltaPercent > Fx(1) \div 2 THEN deltaPercent - Fx(1) ELSE deltaPercent
            IN  [updated |-> TRUE, mouseAngle |-> mouseAngle,
                 percentage |-> percentage + validDeltaPercent]
       ELSE [updated |-> TRUE, mouseAngle |-> mouseAngle,
             percentage |->
               calculatePercentageFromMouseAngle(mouseAngle, angleOffset, angleRange)]

\* calculatePositionFromMouseAngle adding, on the first contact of a
\* multi-rotation knob, the whole forward difference to the pointer.
calculatePositionFromMouseAngle_wholeDelta(mouseAngle, multiRotation, angleOffset, angleRange, percentage, previousPercentage, previousMouseAngle) ==
  IF previousMouseAngle # NULL
  THEN LET deltaAngle == JsMod(mouseAngle - previousMouseAngle, Fx(360))
           validDeltaAngle ==
             IF deltaAngle > Fx(180) THEN 0 - (Fx(360) - deltaAngle)
             ELSE IF deltaAngle < 0 - Fx(180) THEN Fx(360) + deltaAngle
             ELSE deltaAngle
           newPercentage == previousPercentage + Div(validDeltaAngle, angleRange)
       IN  IF validDeltaAngle >= Fx(120) \/ validDeltaAngle <= 0 - Fx(120)
           THEN [updated |-> FALSE, mouseAngle |-> previousMouseAngle,
                 percentage |-> previousPercentage]
           ELSE IF ~multiRotation /\ (newPercentage < 0 \/ newPercentage > Fx(1))
           THEN [updated |-> TRUE,
                 mouseAngle |-> IF newPercentage < 0 THEN angleOffset
                                ELSE JsMod(angleOffset + angleRange + Fx(720), Fx(360)),
                 percentage |-> IF newPercentage < 0 THEN 0 ELSE Fx(1)]
           ELSE [updated |-> TRUE, mouseAngle |-> mouseAngle, percentage |-> newPercentage]
  ELSE IF multiRotation
       THEN LET rawPercentage ==
                  calculatePercentageFromMouseAngle(mouseAngle, angleOffset, angleRange)
                deltaPercent ==
                  JsMod(rawPercentage + Fx(1) - JsMod(percentage, Fx(1)), Fx(1))
                validDeltaPercent == deltaPercent
            IN  [updated |-> TRUE, mouseAngle |-> mouseAngle,
                 percentage |-> percentage + validDeltaPercent]
       ELSE [updated |-> TRUE, mouseAngle |-> mouseAngle,
             percentage |->
               calculatePercentageFromMouseAngle(mouseAngle, angleOffset, angleRange)]

calculatePositionFromMouseAngle(mouseAngle, multiRotation, angleOffset, angleRange, percentage, previousPercentage, previousMouseAngle) ==
  IF previousMouseAngle # NULL
  THEN LET deltaAngle == JsMod(mouseAngle - previousMouseAngle, Fx(360))
           validDeltaAngle ==
             IF deltaAngle > Fx(180) THEN 0 - (Fx(360) - deltaAngle)
             ELSE IF deltaAngle < 0 - Fx(180) THEN Fx(360) + deltaAngle
             ELSE deltaAngle
           newPercentage == previousPercentage + Div(validDeltaAngle, angleRange)
       IN  IF validDeltaAngle >= Fx(120) \/ validDeltaAngle <= 0 - Fx(120)
           THEN [updated |-> FALSE, mouseAngle |-> previousMouseAngle,
                 percentage |-> previousPercentage]
           ELSE IF ~multiRotation /\ (newPercentage < 0 \/ newPercentage > Fx(1))
           THEN [updated |-> TRUE,
                 mouseAngle |-> IF newPercentage < 0 THEN angleOffset
                                ELSE JsMod(angleOffset + angleRange + Fx(720), Fx(360)),
                 percentage |-> IF newPercentage < 0 THEN 0 ELSE Fx(1)]
           ELSE [updated |-> TRUE, mouseAngle |-> mouseAngle, percentage |-> newPercentage]
  ELSE IF multiRotation
       THEN LET rawPercentage ==
                  calculatePercentageFromMouseAngle(mouseAngle, angleOffset, angleRange)
                deltaPercent ==
                  JsMod(rawPercentage + Fx(1) - JsMod(percentage, Fx(1)), Fx(1))
                validDeltaPercent ==
                  IF deltaPercent > Fx(1) \div 2 THEN deltaPercent - Fx(1) ELSE deltaPercent
            IN  [updated |-> TRUE, mouseAngle |-> mouseAngle,
                 percentage |-> percentage + validDeltaPercent]
       ELSE [updated |-> TRUE, mouseAngle |-> mouseAngle,
             percentage |->
               calculatePercentageFromMouseAngle(mouseAngle, angleOffset, angleRange)]

snapPercentage(percentage, nbIntervals) ==
  IF percentage = 0 THEN 0
  ELSE LET sign == Sign(percentage)
           p == Abs(percentage)
           stepSize == Div(Fx(1), nbIntervals)
           extra == JsMod(p + Mul(stepSize, Fx(1) \div 2), stepSize)
       IN  Mul(sign, p - Mul(stepSize, Fx(1) \div 2)) + Mul(sign, stepSize - extra)

snapPosition(position, state, steps) ==
  IF ~position.updated \/ steps = NULL \/ steps = 0
  THEN position
  ELSE LET percentage == snapPercentage(position.percentage, steps)
           mouseAngle == JsMod(state.angleOffset + Mul(state.angleRange, percentage), Fx(360))
       IN  [position EXCEPT !.percentage = percentage,
                            !.mouseAngle = IF mouseAngle < 0 THEN mouseAngle + Fx(360)
                                           ELSE mouseAngle]

getValueFromPercentage(min, max, percentage) == min + Mul(max - min, percentage)

getPercentageFromValue(min, max, value) == Div(value - min, max - min)

(***************************************************************************)
(* src/lib/utils/math.ts and src/lib/utils/angles.ts: the utilities the    *)
(* package exports.  They carry the names of those of src/lib/utils.ts,    *)
(* here prefixed by their file.                                            *)
(***************************************************************************)
math_clamp(min, max, value) == MathMax(min, MathMin(max, value))

\* calculatePercentageFromMouseAngle measuring the angle from the start of the
\* range instead of from its middle.
angles_calculatePercentageFromMouseAngle_uncentred(mouseAngle, angleOffset, angleRange) ==
  LET rangle == JsMod(mouseAngle - angleOffset + Fx(900), Fx(360)) - Fx(180)
      percentage == (Fx(1) \div 2) + Div(rangle, angleRange)
  IN  math_clamp(0, Fx(1), percentage)

angles_calculatePercentageFromMouseAngle(mouseAngle, angleOffset, angleRange) ==
  LET rangle == JsMod(mouseAngle - (angleOffset + Mul(angleRange, Fx(1) \div 2)) + Fx(900),
                      Fx(360)) - Fx(180)
      percentage == (Fx(1) \div 2) + Div(rangle, angleRange)
  IN  math_clamp(0, Fx(1), percentage)

\* The position of the first contact and of single rotation.
AbsolutePosition(mouseAngle, angleOffset, angleRange) ==
  [mouseAngle |-> mouseAngle,
   percentage |-> angles_calculatePercentageFromMouseAngle(mouseAngle, angleOffset, angleRange),
   updated |-> TRUE]

\* The resolver following the pointer by deltas in single rotation too.
angles_calculatePositionFromMouseAngle_deltaAlways(mouseAngle, multiRotation, angleOffset, angleRange, percentage, previousPercentage, previousMouseAngle) ==
  IF previousMouseAngle = NULL \/ previousPercentage = NULL
  THEN AbsolutePosition(mouseAngle, angleOffset, angleRange)
  ELSE LET mouseDiff == mouseAngle - previousMouseAngle IN
         IF Abs(mouseDiff) > Fx(180)
         THEN [mouseAngle |-> previousMouseAngle, percentage |-> previousPercentage,
               updated |-> FALSE]
         ELSE [mouseAngle |-> mouseAngle,
               percentage |-> math_clamp(0, Fx(1), percentage + Div(mouseDiff, angleRange)),
               updated |-> TRUE]

\* The resolver rejecting a sample from a difference of 120 degrees on.
angles_calculatePositionFromMouseAngle_rejectFrom120(mouseAngle, multiRotation, angleOffset, angleRange, percentage, previousPercentage, previousMouseAngle) ==
  IF previousMouseAngle = NULL \/ previousPercentage = NULL
  THEN AbsolutePosition(mouseAngle, angleOffset, angleRange)
  ELSE IF ~multiRotation
  THEN AbsolutePosition(mouseAngle, angleOffset, angleRange)
  ELSE LET mouseDiff == mouseAngle - previousMouseAngle IN
         IF Abs(mouseDiff) >= Fx(120)
         THEN [mouseAngle |-> previousMouseAngle, percentage |-> previousPercentage,
               updated |-> FALSE]
         ELSE [mouseAngle |-> mouseAngle,
               percentage |-> math_clamp(0, Fx(1), percentage + Div(mouseDiff, angleRange)),
               updated |-> TRUE]

angles_calculatePositionFromMouseAngle(mouseAngle, multiRotation, angleOffset, angleRange, percentage, previousPercentage, previousMouseAngle) ==
  IF previousMouseAngle = NULL \/ previousPercentage = NULL
  THEN AbsolutePosition(mouseAngle, angleOffset, angleRange)
  ELSE IF ~multiRotation
  THEN AbsolutePosition(mouseAngle, angleOffset, angleRange)
  ELSE LET mouseDiff == mouseAngle - previousMouseAngle IN
         IF Abs(mouseDiff) > Fx(180)
         THEN [mouseAngle |-> previousMouseAngle, percentage |-> previousPercentage,
               updated |-> FALSE]
         ELSE [mouseAngle |-> mouseAngle,
               percentage |-> math_clamp(0, Fx(1), percentage + Div(mouseDiff, angleRange)),
               updated |-> TRUE]

\* Math.round: the nearest integer, a tie going up.
MathRound(x) == ((x + (Fx(1) \div 2)) \div PScale) * PScale

\* snapPercentage moving to the next position above.
math_snapPercentage_nextUp(percentage, nbIntervals) ==
  Div((Mul(percentage, nbIntervals) \div PScale) * PScale + Fx(1), nbIntervals)

math_snapPercentage(percentage, nbIntervals) ==
  Div(MathRound(Mul(percentage, nbIntervals)), nbIntervals)

\* snapPosition taking steps for the number of intervals.
angles_snapPosition_stepsAsIntervals(position, state, steps) ==
  IF steps = NULL \/ steps = 0 \/ ~position.updated
  THEN position
  ELSE LET nbIntervals == steps
           snappedPercentage ==
             Div(MathRound(Mul(position.percentage, nbIntervals)), nbIntervals)
       IN  [position EXCEPT !.percentage = snappedPercentage]

angles_snapPosition(position, state, steps) ==
  IF steps = NULL \/ steps = 0 \/ ~position.updated
  THEN position
  ELSE LET nbIntervals == steps - Fx(1)
           snappedPercentage ==
             Div(MathRound(Mul(position.percentage, nbIntervals)), nbIntervals)
       IN  [position EXCEPT !.percentage = snappedPercentage]

math_getValueFromPercentage(min, max, percentage) == min + Mul(max - min, percentage)

\* getPercentageFromValue measuring the value from 0 instead of from min.
math_getPercentageFromValue_fromZero(min, max, value) == Div(value, max - min)

math_getPercentageFromValue(min, max, value) == Div(value - min, max - min)

(***************************************************************************)
(* src/lib/actions/events.ts: createKnobState                              *)
(***************************************************************************)
VARIABLES
  internalState,  \* the KnobState record of createKnobState
  calls,          \* the callbacks the last event invoked, in order
  lastEvent,      \* the last event delivered, isActive just before it, and its
                  \* argument (of a move: when an interaction was open)
  drag,           \* history of the interaction opened by the latest start
  dom,            \* the closure of createKnobEventHandlers: its config and the
                  \* listeners its handlers have added to the element
  probe,          \* the last application of an exported utility function
  props           \* the value prop of the Knob and how its parent maintains it

vars == <<internalState, calls, lastEvent, drag, dom, probe, props>>

\* Pointer angles delivered by getMousePosition: degrees in [0, 360).
MouseAngles == {Fx(60 * k) : k \in 0..5}

\* The directions of DIRECTIONS and of handleWheel.
Directions == {0 - Fx(1), Fx(1)}

\* Bound on the winding of a multi-rotation knob: how far the percentage may
\* leave [0, 1] at either end, in pointer samples of 60 degrees.
MaxOvershoot == 3

Cfg(min, max, initialValue, multiRotation, tracking, angleOffset, angleRange, steps) ==
  [min |-> Fx(min), max |-> Fx(max),
   initialValue |-> IF initialValue = NULL THEN NULL ELSE Fx(initialValue),
   multiRotation |-> multiRotation, tracking |-> tracking,
   angleOffset |-> Fx(angleOffset), angleRange |-> Fx(angleRange),
   steps |-> IF steps = NULL THEN NULL ELSE Fx(steps)]

\* The configurations a knob is created with (the props of createKnobState).
\* Single rotation: every combination of tracking, a full or a half circle and
\* snapping on or off.  Multi rotation: with and without snapping and
\* tracking.  Ranges with min = 0, min > 0 and min < 0; initialValue absent,
\* zero, at a bound and inside the range.
Configs ==
  { Cfg(0, 6, NULL, FALSE, FALSE, 0, 360, NULL),
    Cfg(6, 12, NULL, FALSE, FALSE, 0, 360, 3),
    Cfg(0 - 3, 3, 0, FALSE, FALSE, 270, 180, NULL),
    Cfg(0, 6, 3, FALSE, FALSE, 270, 180, 3),
    Cfg(6, 12, 9, FALSE, TRUE, 0, 360, NULL),
    Cfg(0 - 3, 3, NULL, FALSE, TRUE, 0, 360, 3),
    Cfg(0, 6, 6, FALSE, TRUE, 270, 180, NULL),
    Cfg(6, 12, 6, FALSE, TRUE, 270, 180, 3),
    Cfg(0 - 3, 3, 0 - 3, TRUE, FALSE, 0, 360, NULL),
    Cfg(6, 12, 9, TRUE, TRUE, 0, 360, 3),
    Cfg(0, 6, 0, TRUE, FALSE, 270, 180, 3) }

\* `x ? a : b` and `x || b` on a `number | null | undefined`.
Truthy(x) == x # NULL /\ x # 0

createKnobState(c) ==
  [isActive |-> FALSE,
   min |-> c.min,
   max |-> c.max,
   multiRotation |-> c.multiRotation,
   angleOffset |-> c.angleOffset,
   angleRange |-> c.angleRange,
   mouseAngle |-> NULL,
   percentage |-> IF Truthy(c.initialValue)
                  THEN JsDiv(c.initialValue - c.min, c.max - c.min) ELSE 0,
   value |-> IF Truthy(c.initialValue) THEN c.initialValue ELSE 0,
   tracking |-> c.tracking,
   steps |-> c.steps,
   startPercentage |-> NULL,
   startValue |-> NULL]

Call(cb, v) == [cb |-> cb, v |-> v]

\* handleStart taking the value snapshot after the value is overwritten.
handleStart_lateSnapshot(s, mouseAngle) ==
  LET position == calculatePositionFromMouseAngle(mouseAngle, s.multiRotation,
                    s.angleOffset, s.angleRange, s.percentage, NULL, NULL)
      position2 == snapPosition(position, s, s.steps)
      value == getValueFromPercentage(s.min, s.max, position2.percentage)
  IN  [state |-> [s EXCEPT !.isActive = TRUE,
                           !.mouseAngle = mouseAngle,
                           !.percentage = position2.percentage,
                           !.startPercentage = position2.percentage,
                           !.startValue = value,
                           !.value = value],
       calls |-> <<Call("onStart", NULL), Call("onInteractiveChange", value)>>
                 \o (IF s.tracking THEN <<Call("onChange", value)>> ELSE <<>>)]

\* handleStart notifying onChange before onStart and onInteractiveChange.
handleStart_changeFirst(s, mouseAngle) ==
  LET position == calculatePositionFromMouseAngle(mouseAngle, s.multiRotation,
                    s.angleOffset, s.angleRange, s.percentage, NULL, NULL)
      position2 == snapPosition(position, s, s.steps)
      value == getValueFromPercentage(s.min, s.max, position2.percentage)
  IN  [state |-> [s EXCEPT !.isActive = TRUE,
                           !.mouseAngle = mouseAngle,
                           !.percentage = position2.percentage,
                           !.startPercentage = position2.percentage,
                           !.startValue = s.value,
                           !.value = value],
       calls |-> (IF s.tracking THEN <<Call("onChange", value)>> ELSE <<>>)
                 \o <<Call("onStart", NULL), Call("onInteractiveChange", value)>>]

handleStart(s, mouseAngle) ==
  LET position == calculatePositionFromMouseAngle(mouseAngle, s.multiRotation,
                    s.angleOffset, s.angleRange, s.percentage, NULL, NULL)
      position2 == snapPosition(position, s, s.steps)
      value == getValueFromPercentage(s.min, s.max, position2.percentage)
  IN  [state |-> [s EXCEPT !.isActive = TRUE,
                           !.mouseAngle = mouseAngle,
                           !.percentage = position2.percentage,
                           !.startPercentage = position2.percentage,
                           !.startValue = s.value,
                           !.value = value],
       calls |-> <<Call("onStart", NULL), Call("onInteractiveChange", value)>>
                 \o (IF s.tracking THEN <<Call("onChange", value)>> ELSE <<>>)]

\* handleMove without its isActive guard.
handleMove_unguarded(s, mouseAngle) ==
  LET position == calculatePositionFromMouseAngle(mouseAngle, s.multiRotation,
                    s.angleOffset, s.angleRange, s.percentage,
                    s.percentage, s.mouseAngle)
      position2 == snapPosition(position, s, s.steps)
      value == getValueFromPercentage(s.min, s.max, position2.percentage)
  IN  [state |-> [s EXCEPT !.mouseAngle = mouseAngle,
                           !.percentage = position2.percentage,
                           !.value = value],
       calls |-> <<Call("onInteractiveChange", value)>>
                 \o (IF s.tracking THEN <<Call("onChange", value)>> ELSE <<>>)]

handleMove(s, mouseAngle) ==
  IF ~s.isActive
  THEN [state |-> s, calls |-> <<>>]
  ELSE LET position == calculatePositionFromMouseAngle(mouseAngle, s.multiRotation,
                         s.angleOffset, s.angleRange, s.percentage,
                         s.percentage, s.mouseAngle)
           position2 == snapPosition(position, s, s.steps)
           value == getValueFromPercentage(s.min, s.max, position2.percentage)
       IN  [state |-> [s EXCEPT !.mouseAngle = mouseAngle,
                                !.percentage = position2.percentage,
                                !.value = value],
            calls |-> <<Call("onInteractiveChange", value)>>
                      \o (IF s.tracking THEN <<Call("onChange", value)>> ELSE <<>>)]

\* handleEnd that never commits the value.
handleEnd_noCommit(s) ==
  [state |-> [s EXCEPT !.isActive = FALSE,
                       !.startPercentage = NULL,
                       !.startValue = NULL],
   calls |-> <<Call("onEnd", NULL)>>]

\* handleEnd that commits the value whatever the tracking setting.
handleEnd_alwaysCommit(s) ==
  [state |-> [s EXCEPT !.isActive = FALSE,
                       !.startPercentage = NULL,
                       !.startValue = NULL],
   calls |-> (IF s.value # NULL THEN <<Call("onChange", s.value)>> ELSE <<>>)
             \o <<Call("onEnd", NULL)>>]

handleEnd(s) ==
  [state |-> [s EXCEPT !.isActive = FALSE,
                       !.startPercentage = NULL,
                       !.startValue = NULL],
   calls |-> (IF s.value # NULL /\ ~s.tracking THEN <<Call("onChange", s.value)>> ELSE <<>>)
             \o <<Call("onEnd", NULL)>>]

\* handleCancel that leaves the value snapshot in place.
handleCancel_keepSnapshot(s) ==
  [state |-> [s EXCEPT !.value = IF s.startValue # NULL THEN s.startValue ELSE @,
                       !.percentage = IF s.startValue # NULL THEN s.startPercentage ELSE @,
                       !.isActive = FALSE,
                       !.startPercentage = NULL],
   calls |-> (IF s.startValue # NULL /\ s.tracking
              THEN <<Call("onChange", s.startValue)>> ELSE <<>>)
             \o <<Call("onEnd", NULL)>>]

handleCancel(s) ==
  [state |-> [s EXCEPT !.value = IF s.startValue # NULL THEN s.startValue ELSE @,
                       !.percentage = IF s.startValue # NULL THEN s.startPercentage ELSE @,
                       !.isActive = FALSE,
                       !.startPercentage = NULL,
                       !.startValue = NULL],
   calls |-> (IF s.startValue # NULL /\ s.tracking
              THEN <<Call("onChange", s.startValue)>> ELSE <<>>)
             \o <<Call("onEnd", NULL)>>]

\* handleStep that commits only when tracking is on.
handleStep_tracked(s, direction) ==
  IF s.value = NULL
  THEN [state |-> s, calls |-> <<>>]
  ELSE LET value == clamp(s.min, s.max, s.value + direction)
           percentage == getPercentageFromValue(s.min, s.max, value)
       IN  [state |-> [s EXCEPT !.value = value, !.percentage = percentage],
            calls |-> <<Call("onInteractiveChange", value)>>
                      \o (IF s.tracking THEN <<Call("onChange", value)>> ELSE <<>>)]

handleStep(s, direction) ==
  IF s.value = NULL
  THEN [state |-> s, calls |-> <<>>]
  ELSE LET value == clamp(s.min, s.max, s.value + direction)
           percentage == getPercentageFromValue(s.min, s.max, value)
       IN  [state |-> [s EXCEPT !.value = value, !.percentage = percentage],
            calls |-> <<Call("onInteractiveChange", value), Call("onChange", value)>>]

(***************************************************************************)
(* src/lib/actions/events.ts: createKnobEventHandlers                      *)
(***************************************************************************)
\* The config a Knob passes when its props are left at their defaults.
KnobDefaults == [interactiveHook |-> FALSE, readOnly |-> FALSE, useMouseWheel |-> TRUE]

createKnobEventHandlers(config) == [config |-> config, listeners |-> {}]

\* A Knob without a value prop (value = null): nothing is synchronised.
Uncontrolled == [follows |-> "none", value |-> NULL]

\* DIRECTIONS[key]; 0 stands for undefined (both are falsy).
DIRECTIONS(key) ==
  CASE key = "ArrowLeft" -> 0 - Fx(1)
    [] key = "ArrowUp" -> Fx(1)
    [] key = "ArrowRight" -> Fx(1)
    [] key = "ArrowDown" -> 0 - Fx(1)
    [] OTHER -> 0

\* The result of a handler of createKnobEventHandlers: the controller state,
\* the callbacks invoked and the listeners left on the element.
Handled(r, listeners) == [state |-> r.state, calls |-> r.calls, listeners |-> listeners]

Ignored(d, s) == [state |-> s, calls |-> <<>>, listeners |-> d.listeners]

handleKeyDown(d, s, e) ==
  LET direction == DIRECTIONS(e.key) IN
    IF direction = 0 THEN Ignored(d, s)
    ELSE IF d.config.readOnly THEN Ignored(d, s)
    ELSE Handled(handleStep(s, direction), d.listeners)

handleWheel(d, s, e) ==
  IF ~d.config.useMouseWheel THEN Ignored(d, s)
  ELSE LET direction == IF e.deltaX < 0 \/ e.deltaY > 0 THEN Fx(1)
                        ELSE IF e.deltaX > 0 \/ e.deltaY < 0 THEN 0 - Fx(1)
                        ELSE 0
       IN  IF direction = 0 THEN Ignored(d, s)
           ELSE Handled(handleStep(s, direction), d.listeners)

\* What interactiveHook returns when it tunes nothing.
NoTuning == [readOnly |-> FALSE, steps |-> NULL]

\* e.tuning is what the hook of the knob, if it has one, returns for e.
getInteractiveConfig(d, e) == IF ~d.config.interactiveHook THEN NoTuning ELSE e.tuning

\* The listeners handleStart adds where window.PointerEvent exists.
DragListeners == {"pointermove", "pointerup", "pointercancel", "contextmenu"}

dom_handleStart(d, s, e) ==
  IF e.pointerType = "mouse" /\ e.button # 0 THEN Ignored(d, s)
  ELSE IF d.config.readOnly THEN Ignored(d, s)
  ELSE IF getInteractiveConfig(d, e).readOnly THEN Ignored(d, s)
  ELSE Handled(handleStart(s, e.mouseAngle), d.listeners \cup DragListeners)

dom_handleMove(d, s, e) ==
  IF d.config.readOnly THEN Ignored(d, s)
  ELSE IF getInteractiveConfig(d, e).readOnly THEN Ignored(d, s)
  ELSE Handled(handleMove(s, e.mouseAngle), d.listeners)

\* cleanupEventListeners(target, e): with the pointer event the pointer
\* listeners are removed, without it the window mouse listeners (which were
\* never added); the contextmenu listener is removed in both cases.
cleanupEventListeners(listeners, withEvent) ==
  IF withEvent THEN listeners \ DragListeners ELSE listeners \ {"contextmenu"}

dom_handleEnd(d, s) == Handled(handleEnd(s), cleanupEventListeners(d.listeners, TRUE))

dom_handleCancel(d, s) == Handled(handleCancel(s), cleanupEventListeners(d.listeners, TRUE))

handleContextMenu(d, s) == Handled(handleCancel(s), cleanupEventListeners(d.listeners, FALSE))

\* No utility function has been applied.
NoProbe == [done |-> TRUE, f |-> "none", in |-> NULL, out |-> NULL]

(***************************************************************************)
(* History of the run, for stating the properties.                         *)
(***************************************************************************)
Fired(cs, cb) == {i \in 1..Len(cs) : cs[i].cb = cb}

\* The value last passed to onInteractiveChange, or old when cs has no such call.
LastInteractive(cs, old) ==
  IF Fired(cs, "onInteractiveChange") = {} THEN old
  ELSE LET i == CHOOSE j \in Fired(cs, "onInteractiveChange") :
                  \A k \in Fired(cs, "onInteractiveChange") : k <= j
       IN  cs[i].v

NoDrag == [v0 |-> NULL, p0 |-> NULL, changed |-> FALSE, pure |-> FALSE, shown |-> NULL]

\* The history after an event other than start invoked the callbacks cs:
\*   v0, p0   value and percentage just before the start,
\*   changed  onChange was invoked by the start or by an event delivered
\*            while the interaction was open, the closing event excluded
\*            (what the closing event invokes is in calls),
\*   pure     only move events followed the start,
\*   shown    the value last passed to onInteractiveChange; forgotten when
\*            the interaction is cancelled.
\* It is kept up to the event that closes the interaction and dropped by the
\* next event.
Extend(d, active, cs, stillPure, closing, cancelled) ==
  IF ~active THEN NoDrag ELSE
  [d EXCEPT !.changed = @ \/ (~closing /\ Fired(cs, "onChange") # {}),
            !.pure = @ /\ stillPure,
            !.shown = IF cancelled THEN NULL ELSE LastInteractive(cs, @)]

\* The winding bound: a pointer event is delivered only while the percentage
\* it leads to is within MaxOvershoot samples of [0, 1].
WithinWinding(s) ==
  LET beyond == Div(Fx(60 * MaxOvershoot), s.angleRange)
  IN  0 - beyond <= s.percentage /\ s.percentage <= Fx(1) + beyond

Init ==
  /\ \E c \in Configs : internalState = createKnobState(c)
  /\ calls = <<>>
  /\ lastEvent = [type |-> "mount", arg |-> NULL, wasActive |-> FALSE]
  /\ drag = NoDrag
  /\ props = Uncontrolled
  /\ dom = createKnobEventHandlers(KnobDefaults)
  /\ probe = NoProbe

\* A start event.  The percentage before the start is recorded in the history
\* only when traced: it is what the revert of a cancel is compared with.
StartWith(traced) ==
  \E mouseAngle \in MouseAngles :
    LET r == handleStart(internalState, mouseAngle) IN
      /\ WithinWinding(r.state)
      /\ internalState' = r.state
      /\ calls' = r.calls
      /\ lastEvent' = [type |-> "start", arg |-> mouseAngle, wasActive |-> internalState.isActive]
      /\ drag' = [v0 |-> internalState.value,
                  p0 |-> IF traced THEN internalState.percentage ELSE NULL,
                  changed |-> Fired(r.calls, "onChange") # {}, pure |-> TRUE,
                  shown |-> LastInteractive(r.calls, NULL)]
      /\ UNCHANGED <<dom, probe, props>>

Start == StartWith(FALSE)

StartTraced == StartWith(TRUE)

Move ==
  \E mouseAngle \in MouseAngles :
    LET r == handleMove(internalState, mouseAngle) IN
      /\ WithinWinding(r.state)
      /\ internalState' = r.state
      /\ calls' = r.calls
      /\ lastEvent' = [type |-> "move",
                       arg |-> IF internalState.isActive THEN mouseAngle ELSE NULL,
                       wasActive |-> internalState.isActive]
      /\ drag' = Extend(drag, internalState.isActive, r.calls, TRUE, FALSE, FALSE)
      /\ UNCHANGED <<dom, probe, props>>

End ==
  LET r == handleEnd(internalState) IN
    /\ internalState' = r.state
    /\ calls' = r.calls
    /\ lastEvent' = [type |-> "end", arg |-> NULL, wasActive |-> internalState.isActive]
    /\ drag' = Extend(drag, internalState.isActive, r.calls, TRUE, TRUE, FALSE)
    /\ UNCHANGED <<dom, probe, props>>

Cancel ==
  LET r == handleCancel(internalState) IN
    /\ internalState' = r.state
    /\ calls' = r.calls
    /\ lastEvent' = [type |-> "cancel", arg |-> NULL, wasActive |-> internalState.isActive]
    /\ drag' = Extend(drag, internalState.isActive, r.calls, TRUE, TRUE, TRUE)
    /\ UNCHANGED <<dom, probe, props>>

Step ==
  \E direction \in Directions :
    LET r == handleStep(internalState, direction) IN
      /\ internalState' = r.state
      /\ calls' = r.calls
      /\ lastEvent' = [type |-> "step", arg |-> direction, wasActive |-> internalState.isActive]
      /\ drag' = Extend(drag, internalState.isActive, r.calls, FALSE, FALSE, FALSE)
      /\ UNCHANGED <<dom, probe, props>>

Next == Start \/ Move \/ End \/ Cancel \/ Step

Spec == Init /\ [][Next]_vars

\* The same controller with the percentage before each start recorded.
NextTraced == StartTraced \/ Move \/ End \/ Cancel \/ Step

\* The configurations the traced controller is created with.
TracedConfigs ==
  { Cfg(0, 6, NULL, FALSE, FALSE, 0, 360, NULL),
    Cfg(6, 12, 6, FALSE, TRUE, 270, 180, 3) }

InitTraced ==
  /\ \E c \in TracedConfigs : internalState = createKnobState(c)
  /\ calls = <<>>
  /\ lastEvent = [type |-> "mount", arg |-> NULL, wasActive |-> FALSE]
  /\ drag = NoDrag
  /\ props = Uncontrolled
  /\ dom = createKnobEventHandlers(KnobDefaults)
  /\ probe = NoProbe

SpecTraced == InitTraced /\ [][NextTraced]_vars

(***************************************************************************)
(* The Knob element: the events of the browser reach the controller        *)
(* through the handlers of createKnobEventHandlers.                        *)
(***************************************************************************)
Keys == {"ArrowLeft", "ArrowUp", "ArrowRight", "ArrowDown", "Enter"}

WheelDeltas == {0 - 1, 0, 1}

\* What an interactiveHook may return for an event.
Tunings == {NoTuning, [readOnly |-> TRUE, steps |-> NULL], [readOnly |-> FALSE, steps |-> Fx(3)]}

\* The pointer events: a mouse with its left or its right button, and a pen.
PointerEvents ==
  [pointerType : {"mouse"}, button : {0, 2}, mouseAngle : MouseAngles, tuning : Tunings]
    \cup [pointerType : {"pen"}, button : {0}, mouseAngle : MouseAngles, tuning : Tunings]

\* The controller configurations of the Knob elements.
DomKnobs ==
  { Cfg(0, 6, NULL, FALSE, TRUE, 0, 360, NULL),
    Cfg(6, 12, 9, FALSE, FALSE, 270, 180, 3) }

\* The handler configurations of the Knob elements: the defaults, a knob
\* without the wheel and with an interactiveHook, and read-only knobs with
\* and without the wheel.
DomConfigs ==
  { KnobDefaults,
    [interactiveHook |-> TRUE, readOnly |-> FALSE, useMouseWheel |-> FALSE],
    [interactiveHook |-> FALSE, readOnly |-> TRUE, useMouseWheel |-> TRUE],
    [interactiveHook |-> TRUE, readOnly |-> TRUE, useMouseWheel |-> FALSE] }

InitDom ==
  /\ \E c \in DomKnobs : internalState = createKnobState(c)
  /\ \E config \in DomConfigs : dom = createKnobEventHandlers(config)
  /\ calls = <<>>
  /\ lastEvent = [type |-> "mount", arg |-> NULL, wasActive |-> FALSE]
  /\ drag = NoDrag
  /\ props = Uncontrolled
  /\ probe = NoProbe

\* The event of the given type was handled with result r.
Deliver(type, arg, r) ==
  /\ internalState' = r.state
  /\ calls' = r.calls
  /\ dom' = [dom EXCEPT !.listeners = r.listeners]
  /\ lastEvent' = [type |-> type, arg |-> arg, wasActive |-> internalState.isActive]
  /\ UNCHANGED <<drag, probe, props>>

KeyDown ==
  \E key \in Keys :
    Deliver("keydown", DIRECTIONS(key), handleKeyDown(dom, internalState, [key |-> key]))

Wheel ==
  \E deltaX \in WheelDeltas, deltaY \in WheelDeltas :
    Deliver("wheel", NULL,
            handleWheel(dom, internalState, [deltaX |-> deltaX, deltaY |-> deltaY]))

PointerDown ==
  \E e \in PointerEvents :
    Deliver("pointerdown", NULL, dom_handleStart(dom, internalState, e))

PointerMove ==
  \E e \in PointerEvents :
    Deliver("pointermove", NULL, dom_handleMove(dom, internalState, e))

PointerUp == Deliver("pointerup", NULL, dom_handleEnd(dom, internalState))

PointerCancel == Deliver("pointercancel", NULL, dom_handleCancel(dom, internalState))

\* The contextmenu listener exists only between a start and its clean-up.
ContextMenu ==
  /\ "contextmenu" \in dom.listeners
  /\ Deliver("contextmenu", NULL, handleContextMenu(dom, internalState))

NextDom ==
  KeyDown \/ Wheel \/ PointerDown \/ PointerMove \/ PointerUp \/ PointerCancel \/ ContextMenu

SpecDom == InitDom /\ [][NextDom]_vars

(***************************************************************************)
(* The exported utilities applied to arguments of the caller's choosing.   *)
(***************************************************************************)
\* Pointer angles in [0, 360): every 30 degrees, and 10 and 200.
ProbeAngles == {Fx(30 * k) : k \in 0..11} \cup {Fx(10), Fx(200)}

\* angleOffset and angleRange: a full circle from the top, a half circle
\* from the left.
ProbeGeometries ==
  { [angleOffset |-> 0, angleRange |-> Fx(360)],
    [angleOffset |-> Fx(270), angleRange |-> Fx(180)] }

\* Percentages inside, at the ends of and outside [0, 1].
ProbePercentages ==
  {0 - (Fx(1) \div 2), 0, Fx(1) \div 4, Fx(1) \div 2, Fx(1), Fx(3) \div 2}

\* The arguments of one application of calculatePercentageFromMouseAngle.
PercentageArguments ==
  {[angleOffset |-> g.angleOffset, angleRange |-> g.angleRange, mouseAngle |-> mouseAngle] :
     g \in ProbeGeometries, mouseAngle \in ProbeAngles}

\* The arguments of one application of calculatePositionFromMouseAngle.
PositionArguments ==
  {[angleOffset |-> g.angleOffset, angleRange |-> g.angleRange,
    mouseAngle |-> mouseAngle, multiRotation |-> multiRotation,
    percentage |-> percentage, previousMouseAngle |-> previousMouseAngle,
    previousPercentage |-> previousPercentage] :
     g \in ProbeGeometries, mouseAngle \in ProbeAngles, multiRotation \in BOOLEAN,
     percentage \in ProbePercentages,
     previousMouseAngle \in ProbeAngles \cup {NULL},
     previousPercentage \in ProbePercentages \cup {NULL}}

\* The call f(in) is about to be made.
Calling(f, in) == [done |-> FALSE, f |-> f, in |-> in, out |-> NULL]

InitProbe ==
  /\ internalState = createKnobState(Cfg(0, 6, NULL, FALSE, TRUE, 0, 360, NULL))
  /\ calls = <<>>
  /\ lastEvent = [type |-> "mount", arg |-> NULL, wasActive |-> FALSE]
  /\ drag = NoDrag
  /\ props = Uncontrolled
  /\ dom = createKnobEventHandlers(KnobDefaults)
  /\ \/ \E in \in PercentageArguments :
          \/ probe = Calling("angles.calculatePercentageFromMouseAngle", in)
          \/ probe = Calling("utils.calculatePercentageFromMouseAngle", in)
     \/ \E in \in PositionArguments :
          probe = Calling("angles.calculatePositionFromMouseAngle", in)

\* The call named f returns out.
Returns(f, out) ==
  /\ probe.f = f
  /\ ~probe.done
  /\ probe' = [probe EXCEPT !.done = TRUE, !.out = out]
  /\ UNCHANGED <<internalState, calls, lastEvent, drag, dom, props>>

ApplyPercentage ==
  Returns("angles.calculatePercentageFromMouseAngle",
          angles_calculatePercentageFromMouseAngle(probe.in.mouseAngle,
            probe.in.angleOffset, probe.in.angleRange))

ApplyControllerPercentage ==
  Returns("utils.calculatePercentageFromMouseAngle",
          calculatePercentageFromMouseAngle(probe.in.mouseAngle, probe.in.angleOffset,
                                            probe.in.angleRange))

ApplyPosition ==
  Returns("angles.calculatePositionFromMouseAngle",
          angles_calculatePositionFromMouseAngle(probe.in.mouseAngle,
            probe.in.multiRotation, probe.in.angleOffset, probe.in.angleRange,
            probe.in.percentage, probe.in.previousPercentage,
            probe.in.previousMouseAngle))

NextProbe == ApplyPercentage \/ ApplyControllerPercentage \/ ApplyPosition

SpecProbe == InitProbe /\ [][NextProbe]_vars

(***************************************************************************)
(* The snapping functions, exported and of the controller, applied to      *)
(* arguments of the caller's choosing.                                     *)
(***************************************************************************)
\* Percentages from -1/2 to 3/2, every 1/24.
SnapPercentages == {k * (Fx(1) \div 24) : k \in (0 - 12)..36}

\* Numbers of intervals.
SnapIntervals == {Fx(1), Fx(2), Fx(3), Fx(4), Fx(5), Fx(6)}

\* The steps argument of snapPosition: absent, or a number of positions.
SnapSteps == {NULL, Fx(2), Fx(3), Fx(4), Fx(5), Fx(7)}

\* The position argument of snapPosition.
SnapPositions ==
  {[mouseAngle |-> Fx(90), percentage |-> percentage, updated |-> updated] :
     percentage \in SnapPercentages, updated \in BOOLEAN}

InitSnap ==
  /\ internalState = createKnobState(Cfg(0, 6, NULL, FALSE, TRUE, 0, 360, NULL))
  /\ calls = <<>>
  /\ lastEvent = [type |-> "mount", arg |-> NULL, wasActive |-> FALSE]
  /\ drag = NoDrag
  /\ props = Uncontrolled
  /\ dom = createKnobEventHandlers(KnobDefaults)
  /\ \/ \E percentage \in SnapPercentages, nbIntervals \in SnapIntervals :
          \/ probe = Calling("math.snapPercentage",
                             [nbIntervals |-> nbIntervals, percentage |-> percentage])
          \/ probe = Calling("utils.snapPercentage",
                             [nbIntervals |-> nbIntervals, percentage |-> percentage])
     \/ \E position \in SnapPositions, steps \in SnapSteps :
          probe = Calling("angles.snapPosition",
                          [position |-> position,
                           state |-> [angleOffset |-> 0, angleRange |-> Fx(360)],
                           steps |-> steps])

ApplySnapPercentage ==
  Returns("math.snapPercentage",
          math_snapPercentage(probe.in.percentage, probe.in.nbIntervals))

ApplyControllerSnapPercentage ==
  Returns("utils.snapPercentage",
          snapPercentage(probe.in.percentage, probe.in.nbIntervals))

ApplySnapPosition ==
  Returns("angles.snapPosition",
          angles_snapPosition(probe.in.position, probe.in.state, probe.in.steps))

NextSnap == ApplySnapPercentage \/ ApplyControllerSnapPercentage \/ ApplySnapPosition

SpecSnap == InitSnap /\ [][NextSnap]_vars

(***************************************************************************)
(* The value/percentage conversions, exported and of the controller,       *)
(* applied to arguments of the caller's choosing.                          *)
(***************************************************************************)
\* Ranges with min < max: min zero, positive and negative, and a range that
\* lies below zero.
ConvertRanges ==
  { [max |-> Fx(6), min |-> 0], [max |-> Fx(12), min |-> Fx(6)],
    [max |-> Fx(3), min |-> 0 - Fx(3)], [max |-> Fx(1), min |-> 0],
    [max |-> Fx(5), min |-> Fx(2)], [max |-> 0 - Fx(2), min |-> 0 - Fx(12)] }

\* Percentages from -1/4 to 5/4, every 1/24.
ConvertPercentages == {k * (Fx(1) \div 24) : k \in (0 - 6)..30}

\* The values of a range and around it, every 1/2.
ConvertValues(range) ==
  {range.min + k * (Fx(1) \div 2) :
     k \in (0 - 2)..(2 * ((range.max - range.min) \div PScale) + 2)}

InitConvert ==
  /\ internalState = createKnobState(Cfg(0, 6, NULL, FALSE, TRUE, 0, 360, NULL))
  /\ calls = <<>>
  /\ lastEvent = [type |-> "mount", arg |-> NULL, wasActive |-> FALSE]
  /\ drag = NoDrag
  /\ props = Uncontrolled
  /\ dom = createKnobEventHandlers(KnobDefaults)
  /\ \E range \in ConvertRanges :
       \/ \E percentage \in ConvertPercentages :
            LET in == [max |-> range.max, min |-> range.min, percentage |-> percentage]
            IN  \/ probe = Calling("math.getValueFromPercentage", in)
                \/ probe = Calling("utils.getValueFromPercentage", in)
       \/ \E value \in ConvertValues(range) :
            LET in == [max |-> range.max, min |-> range.min, value |-> value]
            IN  \/ probe = Calling("math.getPercentageFromValue", in)
                \/ probe = Calling("utils.getPercentageFromValue", in)

ApplyGetValue ==
  Returns("math.getValueFromPercentage",
          math_getValueFromPercentage(probe.in.min, probe.in.max, probe.in.percentage))

ApplyControllerGetValue ==
  Returns("utils.getValueFromPercentage",
          getValueFromPercentage(probe.in.min, probe.in.max, probe.in.percentage))

ApplyGetPercentage ==
  Returns("math.getPercentageFromValue",
          math_getPercentageFromValue(probe.in.min, probe.in.max, probe.in.value))

ApplyControllerGetPercentage ==
  Returns("utils.getPercentageFromValue",
          getPercentageFromValue(probe.in.min, probe.in.max, probe.in.value))

NextConvert ==
  \/ ApplyGetValue
  \/ ApplyControllerGetValue
  \/ ApplyGetPercentage
  \/ ApplyControllerGetPercentage

SpecConvert == InitConvert /\ [][NextConvert]_vars

(***************************************************************************)
(* src/lib/components/Label.svelte: the Knob component in controlled mode.  *)
(* The parent passes a value prop; an effect copies it into the state of    *)
(* the controller whenever the two differ.                                  *)
(***************************************************************************)

\* The body of the effect "Sync external value with internal state".
SyncExternalValue(s, value) ==
  IF value # NULL /\ value # s.value
  THEN [s EXCEPT !.value = value,
                 !.percentage = Div(value - s.min, s.max - s.min)]
  ELSE s

\* A parent that writes the value prop back from onChange
\* (value={v} onChange={(x) => (v = x)}), or one that leaves it alone.
ParentReaction(p, cs) ==
  IF p.follows = "onChange" /\ Fired(cs, "onChange") # {}
  THEN LET i == CHOOSE j \in Fired(cs, "onChange") :
                  \A k \in Fired(cs, "onChange") : k <= j
       IN  [p EXCEPT !.value = cs[i].v]
  ELSE p

\* Values the parent may assign to the value prop.
ExternalValues == {Fx(0), Fx(3), Fx(6)}

ControlledConfigs ==
  { Cfg(0, 6, 0, FALSE, FALSE, 0, 360, NULL),
    Cfg(0, 6, 3, FALSE, TRUE, 0, 360, NULL),
    Cfg(0, 6, 3, FALSE, FALSE, 0, 360, 3) }

\* The Knob is mounted with value = initialValue (initialValue = value).
InitControlled ==
  /\ \E c \in ControlledConfigs, follows \in {"none", "onChange"} :
       /\ internalState = SyncExternalValue(createKnobState(c), c.initialValue)
       /\ props = [follows |-> follows, value |-> c.initialValue]
  /\ calls = <<>>
  /\ lastEvent = [type |-> "mount", arg |-> NULL, wasActive |-> FALSE]
  /\ drag = NoDrag
  /\ dom = createKnobEventHandlers(KnobDefaults)
  /\ probe = NoProbe

\* A handler of the controller ran with result r: its callbacks reach the
\* parent, and the effect reruns because the state or the prop it reads changed.
Rendered(type, arg, r) ==
  LET p == ParentReaction(props, r.calls) IN
    /\ props' = p
    /\ internalState' = SyncExternalValue(r.state, p.value)
    /\ calls' = r.calls
    /\ lastEvent' = [type |-> type, arg |-> arg, wasActive |-> internalState.isActive]
    /\ UNCHANGED <<drag, dom, probe>>

ControlledStart ==
  \E mouseAngle \in MouseAngles :
    Rendered("start", mouseAngle, handleStart(internalState, mouseAngle))

ControlledMove ==
  \E mouseAngle \in MouseAngles :
    Rendered("move", IF internalState.isActive THEN mouseAngle ELSE NULL,
             handleMove(internalState, mouseAngle))

ControlledEnd == Rendered("end", NULL, handleEnd(internalState))

ControlledCancel == Rendered("cancel", NULL, handleCancel(internalState))

ControlledStep ==
  \E direction \in Directions :
    Rendered("step", direction, handleStep(internalState, direction))

\* The parent assigns a new value to the prop; the effect reruns.
SetValue ==
  \E value \in ExternalValues :
    /\ value # props.value
    /\ props' = [props EXCEPT !.value = value]
    /\ internalState' = SyncExternalValue(internalState, value)
    /\ calls' = <<>>
    /\ lastEvent' = [type |-> "sync", arg |-> value, wasActive |-> internalState.isActive]
    /\ UNCHANGED <<drag, dom, probe>>

NextControlled ==
  \/ ControlledStart
  \/ ControlledMove
  \/ ControlledEnd
  \/ ControlledCancel
  \/ ControlledStep
  \/ SetValue

SpecControlled == InitControlled /\ [][NextControlled]_vars

(***************************************************************************)
(* src/lib/actions/events.ts: createKnobState applied to a configuration.   *)
(***************************************************************************)

\* Ranges with min < max.
MountRanges ==
  { [max |-> Fx(6), min |-> 0], [max |-> Fx(12), min |-> Fx(6)],
    [max |-> Fx(3), min |-> 0 - Fx(3)], [max |-> Fx(5), min |-> Fx(2)],
    [max |-> 0 - Fx(2), min |-> 0 - Fx(12)], [max |-> Fx(1), min |-> 0] }

\* Ranges with min >= max.
EmptyRanges ==
  { [max |-> Fx(3), min |-> Fx(3)], [max |-> 0, min |-> 0],
    [max |-> 0, min |-> Fx(6)] }

\* The integers of a range.
MountValues(range) ==
  {range.min + Fx(k) : k \in 0..((range.max - range.min) \div PScale)}

\* The configuration the Knob component passes for the arguments `in`.
MountConfig(in) ==
  [min |-> in.min, max |-> in.max, initialValue |-> in.initialValue,
   multiRotation |-> FALSE, tracking |-> TRUE,
   angleOffset |-> 0, angleRange |-> Fx(360), steps |-> in.steps]

InitMount ==
  /\ internalState = createKnobState(Cfg(0, 6, NULL, FALSE, TRUE, 0, 360, NULL))
  /\ calls = <<>>
  /\ lastEvent = [type |-> "mount", arg |-> NULL, wasActive |-> FALSE]
  /\ drag = NoDrag
  /\ props = Uncontrolled
  /\ dom = createKnobEventHandlers(KnobDefaults)
  /\ \/ \E range \in MountRanges, steps \in {NULL, Fx(0), Fx(1), Fx(3)} :
          \E initialValue \in MountValues(range) \cup {NULL} :
            probe = Calling("createKnobState",
                            [initialValue |-> initialValue, max |-> range.max,
                             min |-> range.min, steps |-> steps])
     \/ \E range \in EmptyRanges, steps \in {NULL, Fx(3)} :
          \E initialValue \in {NULL, Fx(0), Fx(3), Fx(6)} :
            probe = Calling("createKnobState",
                            [initialValue |-> initialValue, max |-> range.max,
                             min |-> range.min, steps |-> steps])

\* createKnobState returns its state (with the handlers closed over it).
ApplyCreateKnobState ==
  Returns("createKnobState", createKnobState(MountConfig(probe.in)))

NextMount == ApplyCreateKnobState

SpecMount == InitMount /\ [][NextMount]_vars

(***************************************************************************)
(* src/lib/components/Label.svelte: the Range component.                    *)
(***************************************************************************)

\* const p = propPercentage ?? contextPercentage
Range_p(propPercentage, contextPercentage) ==
  IF propPercentage # NULL THEN propPercentage ELSE contextPercentage

\* pfrom falling back on the current percentage when neither bound is given.
pfrom_currentWhenNeither(percentageFrom, percentageTo, p) ==
  IF percentageFrom # NULL /\ percentageTo # NULL THEN percentageFrom
  ELSE IF percentageFrom # NULL THEN percentageFrom
  ELSE p

pfrom(percentageFrom, percentageTo, p) ==
  IF percentageFrom # NULL /\ percentageTo # NULL THEN percentageFrom
  ELSE IF percentageFrom # NULL THEN percentageFrom
  ELSE IF percentageTo # NULL THEN p
  ELSE 0

pto(percentageFrom, percentageTo, p) ==
  IF percentageFrom # NULL /\ percentageTo # NULL THEN percentageTo
  ELSE IF percentageFrom # NULL THEN p
  ELSE IF percentageTo # NULL THEN percentageTo
  ELSE p

\* The derived d of Range: null, or the path calcPath draws for the resolved
\* pair, kept as the pair calcPath is called with.  The <g> is rendered iff d.
Range_d(in) ==
  LET p == Range_p(in.percentage, in.contextPercentage)
      from == pfrom(in.percentageFrom, in.percentageTo, p)
      to == pto(in.percentageFrom, in.percentageTo, p)
  IN  [path |-> from # NULL /\ to # NULL, pfrom |-> from, pto |-> to]

\* Percentages given to Range as props or found in the knob context
\* (KnobState.percentage is number | null).
RangePercentages == {NULL, 0, Fx(1) \div 4, Fx(1) \div 2, Fx(1), Fx(5) \div 4}

InitRange ==
  /\ internalState = createKnobState(Cfg(0, 6, NULL, FALSE, TRUE, 0, 360, NULL))
  /\ calls = <<>>
  /\ lastEvent = [type |-> "mount", arg |-> NULL, wasActive |-> FALSE]
  /\ drag = NoDrag
  /\ props = Uncontrolled
  /\ dom = createKnobEventHandlers(KnobDefaults)
  /\ \E contextPercentage \in RangePercentages, percentage \in RangePercentages,
        percentageFrom \in RangePercentages, percentageTo \in RangePercentages :
       probe = Calling("Range",
                       [contextPercentage |-> contextPercentage,
                        percentage |-> percentage,
                        percentageFrom |-> percentageFrom,
                        percentageTo |-> percentageTo])

ApplyRange == Returns("Range", Range_d(probe.in))

NextRange == ApplyRange

SpecRange == InitRange /\ [][NextRange]_vars

(***************************************************************************)
(* The Spiral component (unnamed/part_001).                                 *)
(***************************************************************************)

\* const pfrom = percentageFrom ?? (percentageTo !== null ? percentage : 0)
Spiral_pfrom(percentageFrom, percentageTo, percentage) ==
  IF percentageFrom # NULL THEN percentageFrom
  ELSE IF percentageTo # NULL THEN percentage ELSE 0

\* const pto = percentageTo ?? percentage
Spiral_pto(percentageTo, percentage) ==
  IF percentageTo # NULL THEN percentageTo ELSE percentage

\* The Spiral for its props `in`: the resolved pair and whether the {#if}
\* block renders a path.  The percentage prop defaults to null; the knob
\* context is read for angleRange, angleOffset and size only.
Spiral(in) ==
  LET from == Spiral_pfrom(in.percentageFrom, in.percentageTo, in.percentage)
      to == Spiral_pto(in.percentageTo, in.percentage)
  IN  [pfrom |-> from, pto |-> to,
       rendered |-> in.radiusFrom # NULL /\ in.radiusTo # NULL
                      /\ from # NULL /\ to # NULL]

\* Math.ceil.
MathCeil(x) == (0 - ((0 - x) \div PScale)) * PScale

\* function ordered(v1, p1, v2, p2)
ordered(v1, p1, v2, p2) == IF v1 <= v2 THEN <<v1, p1, v2, p2>> ELSE <<v2, p2, v1, p1>>

\* calcPath of the Spiral: the segment count nb and, for each pass i = 0..nb
\* of the loop, the interpolation fraction coef = i / nb and the outer radius
\* computed from it.  Arithmetic on NaN gives NaN.
Spiral_calcPath(in) ==
  LET o == ordered(in.percentageFrom, in.outerRadiusFrom,
                   in.percentageTo, in.outerRadiusTo)
      percentageMin == o[1]
      outerRadiusMin == o[2]
      percentageMax == o[3]
      outerRadiusMax == o[4]
      nb == (MathCeil(percentageMax - percentageMin) \div PScale) * 4
      coef(i) == JsDiv(Fx(i), Fx(nb))
      outerRadius(i) ==
        IF coef(i) = NaN THEN NaN
        ELSE outerRadiusMin + Mul(outerRadiusMax - outerRadiusMin, coef(i))
  IN  [coef |-> [k \in 1..(nb + 1) |-> coef(k - 1)],
       nb |-> nb,
       outerRadius |-> [k \in 1..(nb + 1) |-> outerRadius(k - 1)]]

\* Percentages given to Spiral as props or found in the knob context.
SpiralPercentages == {NULL, 0, Fx(1) \div 4, Fx(1) \div 2, Fx(3) \div 2}

\* Radii given to Spiral.
SpiralRadii == {NULL, Fx(30), Fx(40)}

InitSpiral ==
  /\ internalState = createKnobState(Cfg(0, 6, NULL, FALSE, TRUE, 0, 360, NULL))
  /\ calls = <<>>
  /\ lastEvent = [type |-> "mount", arg |-> NULL, wasActive |-> FALSE]
  /\ drag = NoDrag
  /\ props = Uncontrolled
  /\ dom = createKnobEventHandlers(KnobDefaults)
  /\ \E contextPercentage \in SpiralPercentages \ {NULL},
        percentage \in SpiralPercentages,
        percentageFrom \in SpiralPercentages, percentageTo \in SpiralPercentages,
        radiusFrom \in SpiralRadii, radiusTo \in SpiralRadii :
       \/ probe = Calling("Spiral",
                       [contextPercentage |-> contextPercentage,
                        percentage |-> percentage,
                        percentageFrom |-> percentageFrom,
                        percentageTo |-> percentageTo,
                        radiusFrom |-> radiusFrom,
                        radiusTo |-> radiusTo])
          \/ /\ {percentageFrom, percentageTo, radiusFrom, radiusTo} \cap {NULL} = {}
             /\ percentage = NULL
             /\ contextPercentage = 0
             /\ probe = Calling("Spiral.calcPath",
                                [outerRadiusFrom |-> radiusFrom,
                                 outerRadiusTo |-> radiusTo,
                                 percentageFrom |-> percentageFrom,
                                 percentageTo |-> percentageTo])

ApplySpiral == Returns("Spiral", Spiral(probe.in))

ApplySpiralCalcPath == Returns("Spiral.calcPath", Spiral_calcPath(probe.in))

NextSpiral == ApplySpiral \/ ApplySpiralCalcPath

SpecSpiral == InitSpiral /\ [][NextSpiral]_vars

(***************************************************************************)
(* src/lib/components/Label.svelte: clampDeg and calcPath of the Range.      *)
(* The numbers of the arc geometry are kept in thousandths, n standing for  *)
(* n / ArcScale, so that 359.999 is exact.                                  *)
(* Angles stay in degrees: degTorad and the cos/sin of pointOnCircle are not *)
(* computed.                                                                *)
(***************************************************************************)
ArcScale == 1000

\* The image of the integer literal n.
ArcFx(n) == n * ArcScale

ArcMul(a, b) == ExactDiv(a * b, ArcScale)

\* The literal 359.999.
JustUnderFullTurn == ArcFx(360) - 1

\* clampDeg letting a span of exactly one turn through.
clampDeg_exclusive(deg) ==
  IF deg > ArcFx(360) THEN JustUnderFullTurn
  ELSE IF deg < 0 - ArcFx(360) THEN 0 - JustUnderFullTurn
  ELSE deg

clampDeg(deg) ==
  IF deg >= ArcFx(360) THEN JustUnderFullTurn
  ELSE IF deg <= 0 - ArcFx(360) THEN 0 - JustUnderFullTurn
  ELSE deg

\* calcPath of the Range: the angles and the flags written into the path.
\* angleTo is angleFrom + clampedAngle, the angle of p2 and p3; direction is
\* the sweep flag of the outer arc and innerDirection that of the inner arc.
Range_calcPath(in) ==
  LET angle == ArcMul(in.angleRange, in.percentageTo - in.percentageFrom)
      clampedAngle == clampDeg(angle)
      angleFrom == in.angleOffset - ArcFx(90) + ArcMul(in.angleRange, in.percentageFrom)
      largeArcFlag == IF Abs(clampedAngle) < ArcFx(180) THEN 0 ELSE 1
      direction == IF clampedAngle >= 0 THEN 1 ELSE 0
  IN  [angleFrom |-> angleFrom, angleTo |-> angleFrom + clampedAngle,
       clampedAngle |-> clampedAngle, direction |-> direction,
       innerDirection |-> 1 - direction, largeArcFlag |-> largeArcFlag]

\* The percentages of an arc: from -1 to 2, every 1/4.
ArcPercentages == {k * (ArcFx(1) \div 4) : k \in (0 - 4)..8}

\* The angleRange and angleOffset of the knob context.
ArcRanges == {ArcFx(90), ArcFx(180), ArcFx(270), ArcFx(360)}

ArcOffsets == {0, ArcFx(90), ArcFx(270)}

InitArc ==
  /\ internalState = createKnobState(Cfg(0, 6, NULL, FALSE, TRUE, 0, 360, NULL))
  /\ calls = <<>>
  /\ lastEvent = [type |-> "mount", arg |-> NULL, wasActive |-> FALSE]
  /\ drag = NoDrag
  /\ props = Uncontrolled
  /\ dom = createKnobEventHandlers(KnobDefaults)
  /\ \E angleOffset \in ArcOffsets, angleRange \in ArcRanges,
        percentageFrom \in ArcPercentages, percentageTo \in ArcPercentages :
       probe = Calling("Range.calcPath",
                       [angleOffset |-> angleOffset, angleRange |-> angleRange,
                        percentageFrom |-> percentageFrom,
                        percentageTo |-> percentageTo])

ApplyRangeCalcPath == Returns("Range.calcPath", Range_calcPath(probe.in))

NextArc == ApplyRangeCalcPath

SpecArc == InitArc /\ [][NextArc]_vars

(***************************************************************************)
(* The Scale component (unnamed/part_002).                                  *)
(***************************************************************************)

\* The Scale of a knob: the number of ticks, the angle between two ticks and
\* the index of the tick drawn as active.  steps is the resolved
\* propSteps ?? knobContext.config.steps ?? 10.
Scale(in) ==
  LET length == in.steps + (IF in.angleRange = Fx(360) THEN 0 ELSE Fx(1))
      stepSize == Div(in.angleRange, in.steps)
      active == MathRound(Mul(length - Fx(1), in.percentage))
  IN  [active |-> active, length |-> length, stepSize |-> stepSize]

\* The rotation of tick i: angleOffset + stepSize * i.
TickAngle(in, stepSize, i) == in.angleOffset + Mul(stepSize, i)

\* The rotation of the Pointer: angleOffset + angleRange * percentage.
PointerAngle(in) == in.angleOffset + Mul(in.angleRange, in.percentage)

\* The steps of a Scale.
ScaleSteps == {Fx(2), Fx(4), Fx(5), Fx(10)}

\* The percentages of the knob: from 0 to 1, every 1/20.
ScalePercentages == {k * (Fx(1) \div 20) : k \in 0..20}

ScaleRanges == {Fx(180), Fx(270), Fx(360)}

ScaleOffsets == {0, Fx(270)}

InitScale ==
  /\ internalState = createKnobState(Cfg(0, 6, NULL, FALSE, TRUE, 0, 360, NULL))
  /\ calls = <<>>
  /\ lastEvent = [type |-> "mount", arg |-> NULL, wasActive |-> FALSE]
  /\ drag = NoDrag
  /\ props = Uncontrolled
  /\ dom = createKnobEventHandlers(KnobDefaults)
  /\ \E angleOffset \in ScaleOffsets, angleRange \in ScaleRanges,
        percentage \in ScalePercentages, steps \in ScaleSteps :
       probe = Calling("Scale",
                       [angleOffset |-> angleOffset, angleRange |-> angleRange,
                        percentage |-> percentage, steps |-> steps])

ApplyScale == Returns("Scale", Scale(probe.in))

NextScale == ApplyScale

SpecScale == InitScale /\ [][NextScale]_vars

(***************************************************************************)
(* src/lib/actions/events.ts: one drag of the controller followed sample by  *)
(* sample.  The history of the drag is kept beside the state: the percentage *)
(* the start left (p0), the signed way the pointer has gone since            *)
(* (travelled), and whether every sample so far was within 120 degrees of    *)
(* the one before (near) and clockwise by less than half a snap interval     *)
(* (slow).  p0 and travelled are kept only while the drag is near.           *)
(***************************************************************************)

\* The pointer angles of a drag: every 45 degrees.
DragAngles == {Fx(45 * k) : k \in 0..7}

\* Bound on the winding of a drag: how many turns the pointer may go either
\* way, and how many turns of percentage the knob may be below 0 or above 1.
MaxTurns == 1

DragConfigs ==
  { Cfg(0, 8, NULL, FALSE, FALSE, 0, 360, 2),
    Cfg(0, 8, NULL, TRUE, FALSE, 0, 360, NULL),
    Cfg(0, 8, NULL, TRUE, FALSE, 90, 180, NULL) }

WithinTurns(s) ==
  0 - Fx(MaxTurns) <= s.percentage /\ s.percentage <= Fx(1 + MaxTurns)

\* The signed angle from a to b the short way round, in (-180, 180].
ShortestDelta(a, b) ==
  CHOOSE d \in {Fx(45 * k) : k \in (0 - 3)..4} : (b - a - d) % Fx(360) = 0

\* The angle of one snap interval of the controller: angleRange / steps.
SnapInterval(s) == Div(s.angleRange, s.steps)

NoDragLog == [near |-> FALSE, p0 |-> NULL, slow |-> FALSE, travelled |-> 0]

InitDrag ==
  /\ \E c \in DragConfigs : internalState = createKnobState(c)
  /\ calls = <<>>
  /\ lastEvent = [type |-> "mount", arg |-> NULL, wasActive |-> FALSE]
  /\ drag = NoDragLog
  /\ props = Uncontrolled
  /\ dom = createKnobEventHandlers(KnobDefaults)
  /\ probe = NoProbe

DragStart ==
  \E mouseAngle \in DragAngles :
    LET r == handleStart(internalState, mouseAngle) IN
      /\ WithinTurns(r.state)
      /\ internalState' = r.state
      /\ calls' = r.calls
      /\ lastEvent' = [type |-> "start", arg |-> mouseAngle, wasActive |-> internalState.isActive]
      /\ drag' = [near |-> TRUE, p0 |-> r.state.percentage, slow |-> TRUE,
                  travelled |-> 0]
      /\ UNCHANGED <<dom, probe, props>>

\* The pointer moves while the knob is held.
DragMove ==
  \E mouseAngle \in DragAngles :
    LET r == handleMove(internalState, mouseAngle)
        d == ShortestDelta(internalState.mouseAngle, mouseAngle)
        near == drag.near /\ Abs(d) < Fx(120)
    IN
      /\ internalState.isActive
      /\ WithinTurns(r.state)
      /\ Abs(drag.travelled + d) <= Fx(360 * MaxTurns)
      /\ internalState' = r.state
      /\ calls' = r.calls
      /\ lastEvent' = [type |-> "move", arg |-> mouseAngle, wasActive |-> TRUE]
      /\ drag' = [near |-> near,
                  p0 |-> IF near THEN drag.p0 ELSE NULL,
                  slow |-> /\ drag.slow
                           /\ internalState.steps # NULL
                           /\ d > 0
                           /\ 2 * d < SnapInterval(internalState),
                  travelled |-> IF near THEN drag.travelled + d ELSE 0]
      /\ UNCHANGED <<dom, probe, props>>

DragEnd ==
  LET r == handleEnd(internalState) IN
    /\ internalState.isActive
    /\ internalState' = r.state
    /\ calls' = r.calls
    /\ lastEvent' = [type |-> "end", arg |-> NULL, wasActive |-> TRUE]
    /\ drag' = NoDragLog
    /\ UNCHANGED <<dom, probe, props>>

NextDrag == DragStart \/ DragMove \/ DragEnd

SpecDrag == InitDrag /\ [][NextDrag]_vars

(***************************************************************************)
(* src/lib/actions/events.ts: a multi-rotation knob grabbed for the first    *)
(* time.  The knob is created with an initialValue inside or outside         *)
(* [min, max], which puts its percentage anywhere between -1 and 2.          *)
(***************************************************************************)

\* Multi-rotation knobs of a full circle, without and with snapping, whose
\* initial percentage is k / 8.
GrabConfigs ==
  { Cfg(0, 24, 3 * k, TRUE, FALSE, 0, 360, steps) :
      k \in (0 - 8)..16, steps \in {NULL, 3} }

InitGrab ==
  /\ \E c \in GrabConfigs : internalState = createKnobState(c)
  /\ calls = <<>>
  /\ lastEvent = [type |-> "mount", arg |-> NULL, wasActive |-> FALSE]
  /\ drag = [before |-> NULL]
  /\ props = Uncontrolled
  /\ dom = createKnobEventHandlers(KnobDefaults)
  /\ probe = NoProbe

\* The first start on the knob; the percentage it found is kept in the history.
GrabStart ==
  \E mouseAngle \in DragAngles :
    LET r == handleStart(internalState, mouseAngle) IN
      /\ lastEvent.type = "mount"
      /\ internalState' = r.state
      /\ calls' = r.calls
      /\ lastEvent' = [type |-> "start", arg |-> mouseAngle, wasActive |-> FALSE]
      /\ drag' = [before |-> internalState.percentage]
      /\ UNCHANGED <<dom, probe, props>>

NextGrab == GrabStart

SpecGrab == InitGrab /\ [][NextGrab]_vars

(***************************************************************************)
(* The pointer read and the pointer drawn: calculatePercentageFromMouseAngle *)
(* of src/lib/utils.ts and of src/lib/utils/angles.ts against the rotation   *)
(* of the Pointer component.                                                 *)
(***************************************************************************)

\* The rotation the Pointer is drawn with.
Pointer_rotation(angleOffset, angleRange, percentage) ==
  angleOffset + Mul(angleRange, percentage)

\* Pointer angles in [0, 360): every 15 degrees.
PointerAngles == {Fx(15 * k) : k \in 0..23}

\* angleOffset in [0, 360), the last ones making the range cross the top.
PointerOffsets == {0, Fx(90), Fx(225), Fx(345)}

\* angleRange in (0, 360].
PointerRanges == {Fx(90), Fx(180), Fx(270), Fx(360)}

PointerArguments ==
  {[angleOffset |-> angleOffset, angleRange |-> angleRange, mouseAngle |-> mouseAngle] :
     angleOffset \in PointerOffsets, angleRange \in PointerRanges,
     mouseAngle \in PointerAngles}

\* The percentages that the pointer angles stand for: every 1/72.
PointerPercentages == {k * (Fx(1) \div 72) : k \in 0..72}

InitPointer ==
  /\ internalState = createKnobState(Cfg(0, 6, NULL, FALSE, TRUE, 0, 360, NULL))
  /\ calls = <<>>
  /\ lastEvent = [type |-> "mount", arg |-> NULL, wasActive |-> FALSE]
  /\ drag = NoDrag
  /\ props = Uncontrolled
  /\ dom = createKnobEventHandlers(KnobDefaults)
  /\ \E in \in PointerArguments :
       \/ probe = Calling("angles.calculatePercentageFromMouseAngle", in)
       \/ probe = Calling("utils.calculatePercentageFromMouseAngle", in)

NextPointer == ApplyPercentage \/ ApplyControllerPercentage

SpecPointer == InitPointer /\ [][NextPointer]_vars

(***************************************************************************)
(* Properties of the controller                                            *)
(***************************************************************************)

\* The last event, of the given type, closed an interaction made of a start
\* followed by move events only.
Closed(type) == lastEvent.type = type /\ lastEvent.wasActive /\ drag.pure

\* The resolver rejects the pointer sample mouseAngle in state s.
Rejected(s, mouseAngle) ==
  ~calculatePositionFromMouseAngle(mouseAngle, s.multiRotation, s.angleOffset,
     s.angleRange, s.percentage, s.percentage, s.mouseAngle).updated

\* C1: after start -> move* -> cancel the value is the value before the start,
\* the controller is idle, the cancel invoked onEnd exactly once, and with
\* tracking off onChange was invoked by no event of the interaction.
C1_CancelKeepsPreDragValue ==
  Closed("cancel") =>
    /\ internalState.value = drag.v0
    /\ ~internalState.isActive
    /\ Cardinality(Fired(calls, "onEnd")) = 1
    /\ ~internalState.tracking => ~drag.changed /\ Fired(calls, "onChange") = {}

\* A cancelled drag with tracking off that had moved the knob: the value is
\* back at the one before the start, the percentage left behind is another.
C1_Witness ==
  /\ Closed("cancel")
  /\ ~internalState.tracking
  /\ internalState.value = drag.v0
  /\ internalState.value #
       getValueFromPercentage(internalState.min, internalState.max,
                              internalState.percentage)

\* C2: after start -> move* -> cancel the percentage and the value are the
\* pair the knob had immediately before the start.
C2_CancelRevertsValueAndPercentage ==
  Closed("cancel") =>
    /\ internalState.percentage = drag.p0
    /\ internalState.value = drag.v0

C4_TrackingCommitsEveryChange ==
  internalState.tracking =>
    /\ lastEvent.type \in {"start", "move"} =>
         \A i \in Fired(calls, "onInteractiveChange") :
           i < Len(calls) /\ calls[i + 1] = Call("onChange", calls[i].v)
    /\ lastEvent.type = "end" => Fired(calls, "onChange") = {}

\* A move of an open interaction with tracking on.
C4_Witness ==
  /\ internalState.tracking
  /\ lastEvent.type = "move"
  /\ lastEvent.wasActive
  /\ Fired(calls, "onInteractiveChange") # {}

\* C5: a move sample the resolver rejects leaves the state as it was (value,
\* percentage and mouseAngle included) and invokes no callback.
C5_RejectedMoveChangesNothing ==
  [][(/\ lastEvent'.type = "move"
      /\ internalState.isActive
      /\ Rejected(internalState, lastEvent'.arg))
     => (internalState' = internalState /\ calls' = <<>>)]_vars

\* C6: on a single-rotation knob value = min + (max - min) * percentage in
\* every reachable state.
C6_ValueDerivedFromPercentage ==
  ~internalState.multiRotation =>
    internalState.value =
      getValueFromPercentage(internalState.min, internalState.max,
                             internalState.percentage)

C8_SnapshotOnlyWhileActive ==
  /\ (internalState.startValue # NULL \/ internalState.startPercentage # NULL)
       => internalState.isActive
  /\ lastEvent.type \in {"end", "cancel"} =>
       internalState.startValue = NULL /\ internalState.startPercentage = NULL

\* A cancel that closed an open interaction.
C8_Witness ==
  /\ lastEvent.type = "cancel"
  /\ lastEvent.wasActive
  /\ drag.v0 # NULL
  /\ internalState.startValue = NULL

C10_StepIgnoredWhileActive ==
  [][(lastEvent'.type = "step" /\ internalState.isActive)
     => /\ internalState'.value = internalState.value
        /\ internalState'.percentage = internalState.percentage
        /\ calls' = <<>>]_vars

\* C11: a move delivered while no interaction is open (before any start, after
\* an end or a cancel) leaves the whole state as it was, value, percentage,
\* mouseAngle and isActive included, and invokes no callback.
C11_IdleMoveIsNoOp ==
  [][(lastEvent'.type = "move" /\ ~internalState.isActive)
     => (internalState' = internalState /\ calls' = <<>>)]_vars

\* A move delivered after an interaction was closed.
C11_Witness ==
  /\ lastEvent.type = "move"
  /\ ~lastEvent.wasActive
  /\ ~internalState.isActive
  /\ internalState.mouseAngle # NULL
  /\ calls = <<>>

\* C12: on a multi-rotation knob no operation limits the value by min and max:
\* a start or a move leaves value = min + (max - min) * percentage, and a step
\* delivered while the value is wound beyond a bound moves it by the direction,
\* it does not pull it back to the bound.
C12_MultiRotationNeverClamps ==
  [][internalState.multiRotation =>
       /\ lastEvent'.type \in {"start", "move"} /\ internalState'.isActive =>
            internalState'.value =
              getValueFromPercentage(internalState.min, internalState.max,
                                     internalState'.percentage)
       /\ (/\ lastEvent'.type = "step"
           /\ (internalState.value > internalState.max
                 \/ internalState.value < internalState.min)) =>
            internalState'.value = internalState.value + lastEvent'.arg]_vars

\* C13: on a read-only Knob no key, wheel or pointer event changes value or
\* percentage, and none invokes a callback.
C13_ReadOnlyIgnoresInput ==
  [][dom.config.readOnly =>
       /\ internalState'.value = internalState.value
       /\ internalState'.percentage = internalState.percentage
       /\ calls' = <<>>]_vars

\* C14: with tracking off, the end of start -> move* -> end invokes onChange
\* only if the value is not the one the knob had before the start.
C14_ReleaseCommitsOnlyAChange ==
  (Closed("end") /\ ~internalState.tracking /\ internalState.value = drag.v0)
    => Fired(calls, "onChange") = {}

\* C15: on a single-rotation knob without snapping, a move sample the resolver
\* accepts during an interaction leaves the percentage at the absolute-angle
\* result for that sample alone, whatever the earlier samples were.
C15_SingleRotationIsMemoryless ==
  [][(/\ lastEvent'.type = "move"
      /\ internalState.isActive
      /\ ~internalState.multiRotation
      /\ internalState.steps = NULL
      /\ ~Rejected(internalState, lastEvent'.arg))
     => internalState'.percentage =
          calculatePercentageFromMouseAngle(lastEvent'.arg, internalState.angleOffset,
                                            internalState.angleRange)]_vars

(***************************************************************************)
(* Properties of the exported utilities                                    *)
(***************************************************************************)
\* The exported resolver was applied.
Resolved == probe.f = "angles.calculatePositionFromMouseAngle" /\ probe.done

\* C16: the exported resolver, on a first contact (previousMouseAngle null)
\* or in single rotation, returns updated = true, the input angle and the
\* absolute-angle percentage of that angle, which is in [0, 1], whatever
\* percentage, previousPercentage and previousMouseAngle are.
C16_AbsoluteOnFirstContactOrSingle ==
  (Resolved /\ (probe.in.previousMouseAngle = NULL \/ ~probe.in.multiRotation)) =>
    /\ probe.out.updated
    /\ probe.out.mouseAngle = probe.in.mouseAngle
    /\ probe.out.percentage =
         angles_calculatePercentageFromMouseAngle(probe.in.mouseAngle,
           probe.in.angleOffset, probe.in.angleRange)
    /\ 0 <= probe.out.percentage /\ probe.out.percentage <= Fx(1)

\* Single rotation with a previous sample more than 180 degrees away and a
\* previous percentage that is not the one returned.
C16_Witness ==
  /\ Resolved
  /\ ~probe.in.multiRotation
  /\ probe.in.previousMouseAngle # NULL
  /\ probe.in.previousPercentage # NULL
  /\ Abs(probe.in.mouseAngle - probe.in.previousMouseAngle) > Fx(180)
  /\ probe.out.updated
  /\ probe.out.percentage # probe.in.previousPercentage
  /\ probe.out.percentage # probe.in.percentage

\* C17: the exported resolver in multi rotation with a previous angle and a
\* previous percentage rejects a sample exactly when it is more than 180
\* degrees from the previous angle: it then returns updated = false, the
\* previous angle and the previous percentage; otherwise updated = true.
C17_RejectsBeyondHalfTurn ==
  (/\ Resolved
   /\ probe.in.multiRotation
   /\ probe.in.previousMouseAngle # NULL
   /\ probe.in.previousPercentage # NULL) =>
    IF Abs(probe.in.mouseAngle - probe.in.previousMouseAngle) > Fx(180)
    THEN /\ ~probe.out.updated
         /\ probe.out.mouseAngle = probe.in.previousMouseAngle
         /\ probe.out.percentage = probe.in.previousPercentage
    ELSE probe.out.updated

\* Previous angle 10, new angle 200: rejected.
C17_Witness ==
  /\ Resolved
  /\ probe.in.multiRotation
  /\ probe.in.previousMouseAngle = Fx(10)
  /\ probe.in.mouseAngle = Fx(200)
  /\ probe.in.previousPercentage # NULL
  /\ probe.in.previousPercentage # probe.in.percentage
  /\ ~probe.out.updated
  /\ probe.out.percentage = probe.in.previousPercentage

\* C18: during a multi-rotation drag (no snapping) a move sample at most 180
\* degrees from the previous sample is applied: the percentage advances by
\* the angular difference divided by angleRange.
C18_MultiRotationAppliesUpToHalfTurn ==
  [][(/\ lastEvent'.type = "move"
      /\ internalState.isActive
      /\ internalState.multiRotation
      /\ internalState.steps = NULL
      /\ Abs(lastEvent'.arg - internalState.mouseAngle) <= Fx(180))
     => internalState'.percentage =
          internalState.percentage
            + Div(lastEvent'.arg - internalState.mouseAngle, internalState.angleRange)]_vars

\* C19: an update the exported resolver accepts in multi rotation advances
\* the percentage by the angular difference divided by angleRange, without
\* clamping it to [0, 1].
C19_MultiRotationUnclamped ==
  (/\ Resolved
   /\ probe.in.multiRotation
   /\ probe.in.previousMouseAngle # NULL
   /\ probe.in.previousPercentage # NULL
   /\ probe.out.updated) =>
    probe.out.percentage =
      probe.in.percentage
        + Div(probe.in.mouseAngle - probe.in.previousMouseAngle, probe.in.angleRange)

\* Applications of calculatePercentageFromMouseAngle, of either file, to the
\* top of a full circle that starts at the top.
TopOfFullCircle ==
  /\ probe.f \in {"angles.calculatePercentageFromMouseAngle",
                  "utils.calculatePercentageFromMouseAngle"}
  /\ probe.done
  /\ probe.in.angleOffset = 0
  /\ probe.in.angleRange = Fx(360)
  /\ probe.in.mouseAngle = 0

\* C20 as stated: with angleOffset 0 and angleRange 360, mouse angle 0 maps to
\* percentage 0.5.
C20_TopMapsToHalf == TopOfFullCircle => probe.out = Fx(1) \div 2

\* C20 amended: with angleOffset 0 and angleRange 360, mouse angle 0 (the top,
\* where the range starts) maps to percentage 0, by the function of either
\* file; it is mouse angle 180 that maps to 0.5.
C20_TopMapsToZero ==
  /\ TopOfFullCircle => probe.out = 0
  /\ (/\ probe.f \in {"angles.calculatePercentageFromMouseAngle",
                       "utils.calculatePercentageFromMouseAngle"}
      /\ probe.done
      /\ probe.in.angleOffset = 0
      /\ probe.in.angleRange = Fx(360)
      /\ probe.in.mouseAngle = Fx(180)) => probe.out = Fx(1) \div 2

\* The exported function applied to the top of the full circle.
C20_Witness ==
  /\ TopOfFullCircle
  /\ probe.f = "angles.calculatePercentageFromMouseAngle"
  /\ probe.out = 0

\* C21: on a single-rotation knob that snaps with steps = N, the percentage a
\* start or a move of a drag leaves is one of the N equally spaced positions
\* k / (N - 1), k = 0 .. N - 1, of [0, 1].
C21_StepsIsNumberOfSnapPoints ==
  (/\ ~internalState.multiRotation
   /\ internalState.steps # NULL
   /\ internalState.isActive
   /\ drag.pure
   /\ lastEvent.type \in {"start", "move"}) =>
    /\ 0 <= internalState.percentage /\ internalState.percentage <= Fx(1)
    /\ JsMod(Mul(internalState.percentage, internalState.steps - Fx(1)), Fx(1)) = 0

\* out is round(p * nbIntervals) / nbIntervals: a multiple k / nbIntervals
\* with p * nbIntervals - k in [-1/2, 1/2).
RoundedTo(p, nbIntervals, out) ==
  LET scaled == p * (nbIntervals \div PScale)
      k == out * (nbIntervals \div PScale)
  IN  /\ k % PScale = 0
      /\ 0 - (Fx(1) \div 2) <= scaled - k
      /\ scaled - k < Fx(1) \div 2

\* p in [0, 1] is snapped to out on nbIntervals intervals as C22 states.
SnapsWithin(p, nbIntervals, out) ==
  /\ RoundedTo(p, nbIntervals, out)
  /\ 0 <= out /\ out <= Fx(1)
  /\ p = 0 => out = 0
  /\ p = Fx(1) => out = Fx(1)

\* C22: the exported snapping (snapPercentage on nbIntervals intervals,
\* snapPosition with n >= 2 steps on n - 1 intervals) maps 0 to 0 and 1 to 1,
\* and maps every p of [0, 1] to round(p * nbIntervals) / nbIntervals, which
\* is in [0, 1].
C22_SnapKeepsEndpoints ==
  /\ (/\ probe.f = "math.snapPercentage"
      /\ probe.done
      /\ 0 <= probe.in.percentage /\ probe.in.percentage <= Fx(1))
       => SnapsWithin(probe.in.percentage, probe.in.nbIntervals, probe.out)
  /\ (/\ probe.f = "angles.snapPosition"
      /\ probe.done
      /\ probe.in.steps # NULL
      /\ probe.in.position.updated
      /\ 0 <= probe.in.position.percentage /\ probe.in.position.percentage <= Fx(1))
       => SnapsWithin(probe.in.position.percentage, probe.in.steps - Fx(1),
                      probe.out.percentage)

\* snapPosition with three steps applied to 1/4, a tie: it goes up to 1/2.
C22_Witness ==
  /\ probe.f = "angles.snapPosition"
  /\ probe.done
  /\ probe.in.steps = Fx(3)
  /\ probe.in.position.updated
  /\ probe.in.position.percentage = Fx(1) \div 4
  /\ probe.out.percentage = Fx(1) \div 2

\* The function snapping p on n intervals is idempotent at p.
Idempotent(once, twice) == twice = once

MathRoundTiesUp ==
  /\ MathRound(0 - (Fx(5) \div 2)) = 0 - Fx(2)
  /\ MathRound(Fx(5) \div 2) = Fx(3)

\* C24: for min < max, converting a percentage of [0, 1] to a value and back
\* returns the percentage, and converting a value of [min, max] to a
\* percentage and back returns the value, with the exported conversions and
\* with those of the controller.
C24_ConversionRoundTrips ==
  probe.done =>
    /\ (/\ probe.f = "math.getValueFromPercentage"
        /\ 0 <= probe.in.percentage /\ probe.in.percentage <= Fx(1))
         => math_getPercentageFromValue(probe.in.min, probe.in.max, probe.out)
              = probe.in.percentage
    /\ (/\ probe.f = "utils.getValueFromPercentage"
        /\ 0 <= probe.in.percentage /\ probe.in.percentage <= Fx(1))
         => getPercentageFromValue(probe.in.min, probe.in.max, probe.out)
              = probe.in.percentage
    /\ (/\ probe.f = "math.getPercentageFromValue"
        /\ probe.in.min <= probe.in.value /\ probe.in.value <= probe.in.max)
         => math_getValueFromPercentage(probe.in.min, probe.in.max, probe.out)
              = probe.in.value
    /\ (/\ probe.f = "utils.getPercentageFromValue"
        /\ probe.in.min <= probe.in.value /\ probe.in.value <= probe.in.max)
         => getValueFromPercentage(probe.in.min, probe.in.max, probe.out)
              = probe.in.value

\* A percentage strictly inside (0, 1) converted on a range with min not 0:
\* the value is neither the percentage nor a bound.
C24_Witness ==
  /\ probe.f = "math.getValueFromPercentage"
  /\ probe.done
  /\ probe.in.min # 0
  /\ 0 < probe.in.percentage /\ probe.in.percentage < Fx(1)
  /\ probe.out # probe.in.percentage
  /\ probe.in.min < probe.out /\ probe.out < probe.in.max

\* C25: in controlled mode an external change of value overwrites value and
\* percentage only outside an active interaction: while an interaction is
\* active only the handlers of the controller write them.
C25_SyncOnlyOutsideInteraction ==
  [][ (lastEvent'.type = "sync" /\ internalState.isActive)
        => /\ internalState'.value = internalState.value
           /\ internalState'.percentage = internalState.percentage ]_vars

\* Outside an interaction the external value is what the state holds.
SyncedWhenIdle ==
  (lastEvent.type = "sync" /\ ~lastEvent.wasActive)
    => /\ internalState.value = props.value
       /\ internalState.percentage
            = Div(props.value - internalState.min, internalState.max - internalState.min)

\* createKnobState returned a state for its arguments.
Mounted == probe.done /\ probe.f = "createKnobState"

\* C26: at mount the state is seeded from initialValue: for every initialValue
\* in [min, max], 0 included and whatever min is, the initial state has
\* value = initialValue and percentage = (initialValue - min) / (max - min).
C26_SeededFromInitialValue ==
  (/\ Mounted
   /\ probe.in.min < probe.in.max
   /\ probe.in.initialValue # NULL
   /\ probe.in.min <= probe.in.initialValue
   /\ probe.in.initialValue <= probe.in.max)
    => /\ probe.out.value = probe.in.initialValue
       /\ probe.out.percentage
            = Div(probe.in.initialValue - probe.in.min, probe.in.max - probe.in.min)

\* C27: a configuration with min >= max or steps < 2 is rejected when the knob
\* is created: no controller state is ever returned for it.
C27_MalformedIsRejected ==
  Mounted => /\ probe.out.min < probe.out.max
             /\ (probe.out.steps = NULL \/ probe.out.steps >= Fx(2))

\* C28: a start makes the interaction active and fires onStart, then
\* onInteractiveChange(value), then onChange(value) iff tracking, where value
\* is the value left in the state, min + (max - min) * percentage.
C28_StartCallbacksInOrder ==
  lastEvent.type = "start"
    => /\ internalState.isActive
       /\ internalState.value
            = internalState.min
                + Mul(internalState.max - internalState.min, internalState.percentage)
       /\ calls = <<Call("onStart", NULL),
                    Call("onInteractiveChange", internalState.value)>>
                  \o (IF internalState.tracking
                      THEN <<Call("onChange", internalState.value)>> ELSE <<>>)

\* A start from Idle on a tracking knob with snapping that changed the value.
C28_Witness ==
  /\ lastEvent.type = "start"
  /\ ~lastEvent.wasActive
  /\ internalState.tracking
  /\ internalState.steps # NULL
  /\ Len(calls) = 3
  /\ internalState.value # internalState.startValue

\* The percentage p lies on the grid of n snap intervals: p = k / n.
OnSnapIntervals(p, n) == (p * (n \div PScale)) % PScale = 0

\* The step delivered the pointer sample e to handleStart or handleMove.
Sampled(e) ==
  \/ /\ lastEvent'.type = "pointerdown"
     /\ ~(e.pointerType = "mouse" /\ e.button # 0)
     /\ internalState' = dom_handleStart(dom, internalState, e).state
  \/ /\ lastEvent'.type = "pointermove"
     /\ internalState.isActive
     /\ internalState' = dom_handleMove(dom, internalState, e).state

\* C29: the result of interactiveHook tunes the sample: when the hook returns
\* {steps: n} for a start or a move, the percentage that sample produces lies
\* on n snap intervals.
C29_HookStepsSnapSample ==
  [][ \A e \in PointerEvents :
        (/\ dom.config.interactiveHook
         /\ ~dom.config.readOnly
         /\ ~e.tuning.readOnly
         /\ e.tuning.steps # NULL
         /\ Sampled(e))
          => OnSnapIntervals(internalState'.percentage, e.tuning.steps) ]_vars

\* The read-only half of C29: a sample for which the hook returns
\* {readOnly: true} is ignored by handleStart and by handleMove.
HookReadOnlyInhibits ==
  dom.config.interactiveHook
    => \A e \in PointerEvents :
         e.tuning.readOnly
           => /\ dom_handleStart(dom, internalState, e) = Ignored(dom, internalState)
              /\ dom_handleMove(dom, internalState, e) = Ignored(dom, internalState)

\* The current percentage of a Range: its percentage prop, else the knob's.
CurrentPercentage == Range_p(probe.in.percentage, probe.in.contextPercentage)

C31_SpiralResolvesAsDocumented ==
  (probe.done /\ probe.f = "Spiral")
    => /\ probe.out.pfrom =
            (IF probe.in.percentageFrom # NULL THEN probe.in.percentageFrom
             ELSE IF probe.in.percentageTo # NULL THEN 0
             ELSE CurrentPercentage)
       /\ probe.out.pto =
            (IF probe.in.percentageTo # NULL THEN probe.in.percentageTo
             ELSE CurrentPercentage)
       /\ probe.out.rendered
            => (probe.in.radiusFrom # NULL /\ probe.in.radiusTo # NULL)

\* The radius half of C31 alone.
SpiralNeedsBothRadii ==
  (probe.done /\ probe.f = "Spiral" /\ probe.out.rendered)
    => (probe.in.radiusFrom # NULL /\ probe.in.radiusTo # NULL)

\* The span of an arc before clamping: angleRange * (percentageTo - percentageFrom).
RawSpan == ArcMul(probe.in.angleRange, probe.in.percentageTo - probe.in.percentageFrom)

\* C32: the arc spans clampDeg(angleRange * (percentageTo - percentageFrom)),
\* where clampDeg maps deg >= 360 to 359.999, deg <= -360 to -359.999 and is
\* the identity otherwise, so the span is strictly within one turn and a
\* non-empty arc never ends at the angle it starts from; the large-arc flag is
\* 1 iff |span| >= 180, the outer sweep flag is 1 iff span >= 0, and the inner
\* arc sweeps the opposite way.
C32_ArcSpanAndFlags ==
  (probe.done /\ probe.f = "Range.calcPath")
    => /\ probe.out.clampedAngle =
            (IF RawSpan >= ArcFx(360) THEN ArcFx(360) - (ArcFx(1) \div 1000)
             ELSE IF RawSpan <= 0 - ArcFx(360) THEN (ArcFx(1) \div 1000) - ArcFx(360)
             ELSE RawSpan)
       /\ Abs(probe.out.clampedAngle) < ArcFx(360)
       /\ probe.out.angleTo - probe.out.angleFrom = probe.out.clampedAngle
       /\ RawSpan # 0 => (probe.out.angleTo - probe.out.angleFrom) % ArcFx(360) # 0
       /\ probe.out.largeArcFlag = 1 <=> Abs(probe.out.clampedAngle) >= ArcFx(180)
       /\ probe.out.direction = 1 <=> probe.out.clampedAngle >= 0
       /\ probe.out.largeArcFlag \in {0, 1}
       /\ probe.out.direction \in {0, 1}
       /\ probe.out.innerDirection = 1 - probe.out.direction

\* An arc of exactly one turn, drawn clockwise as a large arc of 359.999 degrees.
C32_Witness ==
  /\ probe.done /\ probe.f = "Range.calcPath"
  /\ RawSpan = ArcFx(360)
  /\ probe.out.clampedAngle = ArcFx(360) - (ArcFx(1) \div 1000)
  /\ probe.out.largeArcFlag = 1
  /\ probe.out.direction = 1
  /\ probe.out.innerDirection = 0

\* C33: the segment count nb of the Spiral is at least 1 for all inputs,
\* percentageFrom = percentageTo included, so that no interpolation fraction
\* i / nb is 0 / 0 and no coordinate of the path is undefined.
C33_SpiralSegmentsAtLeastOne ==
  (probe.done /\ probe.f = "Spiral.calcPath")
    => /\ probe.out.nb >= 1
       /\ \A k \in DOMAIN probe.out.coef :
            probe.out.coef[k] # NaN /\ probe.out.outerRadius[k] # NaN

\* The indices of the ticks of the Scale applied: 0 .. length - 1.
Ticks == {Fx(k) : k \in 0..((probe.out.length \div PScale) - 1)}

\* How far tick i is drawn from the pointer, in degrees along the scale.
TickDistance(i) == Abs(TickAngle(probe.in, probe.out.stepSize, i) - PointerAngle(probe.in))

\* C34: the active tick of the Scale indicates the current value: for every
\* percentage of [0, 1] and every steps, the index round((length - 1) * p) is
\* the index of a tick, and no tick is drawn nearer to the pointer than the
\* active one, for angleRange = 360 as for angleRange < 360.
C34_ActiveTickIsNearestToPointer ==
  (probe.done /\ probe.f = "Scale")
    => /\ probe.out.active \in Ticks
       /\ \A i \in Ticks : TickDistance(probe.out.active) <= TickDistance(i)

\* The first half of C34 alone: the active index is the index of a tick.
ScaleActiveIsATick == (probe.done /\ probe.f = "Scale") => probe.out.active \in Ticks

\* C34 on the knobs with angleRange < 360.
ScaleActiveIsNearestOnPartialCircle ==
  (probe.done /\ probe.f = "Scale" /\ probe.in.angleRange < Fx(360))
    => \A i \in Ticks : TickDistance(probe.out.active) <= TickDistance(i)

\* C35: a snapped knob follows a slow drag: on a knob with steps, a drag that
\* moves the pointer clockwise by one snap interval in all, in increments each
\* smaller than half an interval, leaves the percentage one snap position
\* further than the start left it.
C35_SlowDragAdvancesOneSnap ==
  (/\ internalState.isActive
   /\ internalState.steps # NULL
   /\ ~internalState.multiRotation
   /\ drag.slow
   /\ drag.travelled = SnapInterval(internalState)
   /\ drag.p0 + Div(Fx(1), internalState.steps) <= Fx(1))
    => internalState.percentage = drag.p0 + Div(Fx(1), internalState.steps)

\* What the code does instead: however far a slow drag goes, the percentage
\* never leaves the snap position of the start.
SlowDragIsStuck ==
  (internalState.isActive /\ drag.slow /\ ~internalState.multiRotation)
    => internalState.percentage = drag.p0

\* C36: onEnd and the onChange of a release only close an interaction: a
\* pointerup or a pointercancel that reaches the controller while it is idle
\* fires no callback, so there are never more onEnd calls than onStart calls.
C36_IdleReleaseFiresNothing ==
  (lastEvent.type \in {"pointerup", "pointercancel"} /\ ~lastEvent.wasActive)
    => calls = <<>>

\* C37: the winding of a multi-rotation knob accumulates across the 0/360
\* seam: without snapping, as long as every sample of a drag is within 120
\* degrees of the one before, the short way round, the percentage is the one
\* the start left plus the signed way of the pointer over angleRange, so that
\* a full clockwise turn adds 360 / angleRange.
C37_WindingAccumulates ==
  (/\ internalState.isActive
   /\ internalState.multiRotation
   /\ internalState.steps = NULL
   /\ drag.near)
    => internalState.percentage = drag.p0 + Div(drag.travelled, internalState.angleRange)

\* A full clockwise turn on a knob of 180 degrees, ending on a sample that
\* crossed the seam: the percentage is 2 above the one of the start.
C37_Witness ==
  /\ internalState.isActive
  /\ internalState.multiRotation
  /\ internalState.angleRange = Fx(180)
  /\ drag.near
  /\ drag.travelled = Fx(360)
  /\ lastEvent.type = "move"
  /\ lastEvent.arg = 0
  /\ internalState.percentage = drag.p0 + Fx(2)

\* The start of a grab left the percentage within half a turn of the one it
\* found, and congruent modulo 1 to the absolute percentage of the pointer.
NearestToPrior ==
  /\ Abs(internalState.percentage - drag.before) <= Fx(1) \div 2
  /\ (internalState.percentage
        - calculatePercentageFromMouseAngle(lastEvent.arg, internalState.angleOffset,
                                            internalState.angleRange)) % Fx(1) = 0

\* C38 as stated: a start on a multi-rotation knob of a full circle never
\* jumps it by a turn: the percentage becomes the value congruent modulo 1 to
\* the absolute percentage of the pointer that is nearest to the prior
\* percentage, negative or above 1 included.
C38_GrabNeverJumps ==
  (lastEvent.type = "start" /\ internalState.multiRotation
     /\ internalState.angleRange = Fx(360))
    => NearestToPrior

\* C38 amended: the same, on a knob without snapping.
C38_GrabNeverJumpsUnsnapped ==
  (lastEvent.type = "start" /\ internalState.multiRotation
     /\ internalState.angleRange = Fx(360) /\ internalState.steps = NULL)
    => NearestToPrior

\* A knob at percentage -7/8 grabbed at 180 degrees goes to -1/2, not to 1/2.
C38_Witness ==
  /\ lastEvent.type = "start"
  /\ internalState.steps = NULL
  /\ drag.before = 0 - (Fx(7) \div 8)
  /\ lastEvent.arg = Fx(180)
  /\ internalState.percentage = 0 - (Fx(1) \div 2)

\* The pointer angle of the call is in the dead zone: past the end of the
\* range, counted clockwise from its start.
InDeadZone == (probe.in.mouseAngle - probe.in.angleOffset) % Fx(360) > probe.in.angleRange

\* C39: pointer input and pointer rendering agree.  For every percentage p in
\* [0, 1) (and p = 1 on less than a full circle), the pointer angle
\* (angleOffset + angleRange * p) mod 360 is read as p, and the Pointer drawn
\* for the percentage read is back at that angle; an angle of the dead zone is
\* read as 0 or as 1.
C39_PointerReadIsPointerDrawn ==
  (probe.done /\ probe.f \in {"angles.calculatePercentageFromMouseAngle",
                              "utils.calculatePercentageFromMouseAngle"})
    => /\ \A p \in PointerPercentages :
            ( /\ p < Fx(1) \/ probe.in.angleRange < Fx(360)
              /\ JsMod(Pointer_rotation(probe.in.angleOffset, probe.in.angleRange, p),
                       Fx(360)) = probe.in.mouseAngle )
              => /\ probe.out = p
                 /\ JsMod(Pointer_rotation(probe.in.angleOffset, probe.in.angleRange,
                                           probe.out), Fx(360)) = probe.in.mouseAngle
       /\ InDeadZone => probe.out \in {0, Fx(1)}

\* A range of 270 degrees from 225 crosses the top: the pointer at 90 degrees
\* is read as 5/6 by the controller's function.
C39_Witness ==
  /\ probe.done
  /\ probe.f = "utils.calculatePercentageFromMouseAngle"
  /\ probe.in.angleOffset = Fx(225)
  /\ probe.in.angleRange = Fx(270)
  /\ probe.in.mouseAngle = Fx(90)
  /\ probe.out = Fx(5) \div 6

\* Both ends of the dead zone are met: an angle read as 0 and one read as 1.
PointerDeadZoneReadAsOne == probe.done /\ InDeadZone /\ probe.out = Fx(1)
====
